---- MODULE Spec2Model ----
(***************************************************************************)
(* A model of the pseudonomisation core of orchex (src/orchex/dataextract  *)
(* .py): the DataExtract with its registered DataSources and its shared    *)
(* identifier-mapping store, and the operations add_data_source,           *)
(* pseudonomise, export, generate_markdown_report and archive.             *)
(*                                                                         *)
(* A dataframe is a function from column names to columns; a column is a   *)
(* sequence of cells, all columns of one dataframe having the same length. *)
(* A column name is a tuple of one-character strings, so that the regular  *)
(* expression of the column classifier can be evaluated on it.             *)
(* A cell is a pair <<kind, n>>:                                           *)
(*   <<"int", n>>    the integral number n (int, or float with value n.0)  *)
(*   <<"float", n>>  the fractional number n + 0.5                         *)
(*   <<"str", 0>>    a string that does not parse as an integer            *)
(*   <<"nan", 0>>    a missing value (None / NaN)                          *)
(***************************************************************************)
EXTENDS Integers, Sequences, FiniteSets, TLC

\* ------------------------------------------------------------------ bounds
\* rows of a dataframe in the pseudonomise specification
MaxRows == 1
\* columns of a dataframe in the pseudonomise specification
MaxCols == 2
\* declared (column, entity) pairs of a data source
MaxPairs == 2
\* real identifiers are 1..MaxId
MaxId == 2
\* length of the real_ids series in the mapping specification
MaxLen == 4
\* length of a column name in the classifier specification
MaxNameLen == 2
\* columns of a dataframe in the classifier specification
MaxNames == 2
\* components of a path in the upload specification
MaxDepth == 2
\* local files in the upload specification
MaxFiles == 2

\* blobs in the container before a batch call
MaxBlobs == 2

\* identifiers handed to create_join_identifiers_table
MaxIds == 4
\* batch sizes are 1..MaxBatch
MaxBatch == 3

\* ------------------------------------------------------------------ cells
NaN == <<"nan", 0>>
StrCell == <<"str", 0>>
IntCell(n) == <<"int", n>>
FloatCell(n) == <<"float", n>>

RealIds == 1..MaxId

\* the cells a source column may hold
Cells == {IntCell(n) : n \in RealIds} \cup {NaN, FloatCell(1), StrCell}

\* ------------------------------------------------------------ sequences
Range(s) == {s[i] : i \in DOMAIN s}

SetMax(S) == CHOOSE x \in S : \A y \in S : y <= x

SeqsUpTo(S, n) == UNION {[1..k -> S] : k \in 0..n}

\* the subsets of S of at most n elements
RECURSIVE SubsetsUpTo(_, _)
SubsetsUpTo(S, n) ==
    IF n = 0 THEN {{}}
    ELSE LET P == SubsetsUpTo(S, n - 1)
         IN  P \cup {T \cup {x} : T \in P, x \in S}

\* ------------------------------------------------- the column classifier
\* re.search(r"[i|I][d|D]$", name): inside a character class "|" is a
\* literal, and "$" matches at the end of the string and also just before
\* a newline that ends the string.
FirstClass == {"i", "|", "I"}
SecondClass == {"d", "|", "D"}

re_search_id(name) ==
    \E p \in 1..Len(name) :
        /\ p + 1 <= Len(name)
        /\ name[p] \in FirstClass
        /\ name[p + 1] \in SecondClass
        /\ \/ p + 1 = Len(name)
           \/ p + 2 = Len(name) /\ name[p + 2] = "\n"

id_columns_of(columns) == {i \in columns : re_search_id(i)}

\* ----------------------------------------------- __real_id_to_pseudo_id
\* Series.dropna
dropna(s) == SelectSeq(s, LAMBDA c : c # NaN)

\* Series.drop_duplicates (keep="first")
RECURSIVE drop_duplicates(_)
drop_duplicates(s) ==
    IF s = <<>> THEN <<>>
    ELSE LET front == drop_duplicates(SubSeq(s, 1, Len(s) - 1))
             c == s[Len(s)]
         IN  IF c \in Range(front) THEN front ELSE Append(front, c)

\* Series.astype(int) raises for a string that is not an integer literal
astype_int_fails(s) == \E i \in DOMAIN s : s[i] = StrCell

\* Series.astype(int) of one cell: a fractional float is truncated
int_of(c) == c[2]

astype_int(s) == [i \in DOMAIN s |-> int_of(s[i])]

\* {k: i + start for i, k in enumerate(new_real_ids)}: a key that occurs
\* twice keeps the value of its last occurrence
enumerate_dict(new_real_ids, start) ==
    [k \in Range(new_real_ids) |->
        SetMax({i \in DOMAIN new_real_ids : new_real_ids[i] = k}) - 1 + start]

\* {**a, **b}
dict_merge(a, b) ==
    [k \in (DOMAIN a) \cup (DOMAIN b) |-> IF k \in DOMAIN b THEN b[k] ELSE a[k]]

dict_values(m) == {m[k] : k \in DOMAIN m}

\* the numbering continued at the maximum, the + 1 left out
start_pseudo_id_Max(real_id_to_pseudo_id) ==
    IF DOMAIN real_id_to_pseudo_id # {}
    THEN SetMax(dict_values(real_id_to_pseudo_id))
    ELSE 0

start_pseudo_id(real_id_to_pseudo_id) ==
    IF DOMAIN real_id_to_pseudo_id # {}
    THEN SetMax(dict_values(real_id_to_pseudo_id)) + 1
    ELSE 0

\* the filter on the existing real ids left out
new_ids_of_All(ints, existing) == ints

\* real_ids[~real_ids.isin(existing_real_ids)]
new_ids_of(ints, existing) == SelectSeq(ints, LAMBDA k : k \notin DOMAIN existing)

\* the numbering restarted at 0 in every call, and the final assertion
\* comparing len(keys) with len(values), which are always equal
real_id_to_pseudo_id_Restart(real_ids, existing) ==
    LET deduped == drop_duplicates(dropna(real_ids))
    IN  IF astype_int_fails(deduped)
        THEN [error |-> "ValueError", mapping |-> existing]
        ELSE [error |-> "none",
              mapping |-> dict_merge(existing,
                             enumerate_dict(new_ids_of(astype_int(deduped),
                                                       existing), 0))]

\* the result is [error, mapping]; mapping is meaningful when error = "none"
real_id_to_pseudo_id(real_ids, existing) ==
    LET deduped == drop_duplicates(dropna(real_ids))
    IN  IF astype_int_fails(deduped)
        THEN [error |-> "ValueError", mapping |-> existing]
        ELSE
          LET ints == astype_int(deduped)
              new_real_ids == new_ids_of(ints, existing)
              new_map == enumerate_dict(new_real_ids, start_pseudo_id(existing))
              merged == dict_merge(existing, new_map)
          IN  IF Cardinality(DOMAIN merged) # Cardinality(dict_values(merged))
              THEN [error |-> "Collision", mapping |-> existing]
              ELSE [error |-> "none", mapping |-> merged]

\* a cell that is no key of the dict left as it is
map_cell_Keep(c, mapping) ==
    IF c[1] = "int" /\ c[2] \in DOMAIN mapping THEN IntCell(mapping[c[2]]) ELSE c

\* Series.map(dict): a cell that is no key of the dict becomes missing
map_cell(c, mapping) ==
    IF c[1] = "int" /\ c[2] \in DOMAIN mapping THEN IntCell(mapping[c[2]]) ELSE NaN

series_map(s, mapping) == [i \in DOMAIN s |-> map_cell(s[i], mapping)]

\* --------------------------------------------------------------- names
UserId == <<"U", "s", "e", "r", "I", "d">>
quizID == <<"q", "u", "i", "z", "I", "D">>
Score == <<"S", "c", "o", "r", "e">>

SourceNames == {"s1", "s2"}
Entities == {"User", "Quiz"}
ContainerNames == {"extracts"}

\* ------------------------------------------------------------ the state
VARIABLES
    data_sources,      \* DataExtract.data_sources: name -> DataSource
    source_order,      \* insertion order of the keys of data_sources
    pseudonomisation,  \* DataExtract.pseudonomisation: entity -> mapping
    csv_files,         \* public folder, data/<name>.csv: name -> file
    readme,            \* public folder, docs/README.md
    toc_anchors,       \* the default toc_anchors dict of MarkdownReport
    archive_zip,       \* the public archive file beside the public folder
    containers,        \* blob containers that exist
    blobs,             \* blobs uploaded to the containers
    private_file,      \* the pickle that DataExtract.save writes
    local_files,       \* the local files that Blobs reads: path -> content
    default_args,      \* the default objects of DataSource.__init__
    sql,               \* a call of create_join_identifiers_table and its result
    transfer,          \* a batch transfer of Blobs and its result
    last,              \* the outcome of the last operation
    ext,               \* a call of __real_id_to_pseudo_id on its own
    cls                \* a call of the column classifier on its own

vars == <<data_sources, source_order, pseudonomisation, csv_files, readme,
          toc_anchors, archive_zip, containers, blobs, private_file,
          local_files, default_args, last, ext, cls, sql, transfer>>

extract_vars == <<data_sources, source_order, pseudonomisation, csv_files,
                  readme, toc_anchors, archive_zip, containers, blobs,
                  private_file, local_files, default_args, last>>

EmptyDict == <<>>

Outcome(op, arg, error, missed) ==
    [op |-> op, arg |-> arg, error |-> error, missed |-> missed]

\* DataSource.__init__ called with both arguments: the attributes are the
\* caller's objects; defaulted names the attributes bound to a default object
DataSource(dataframe, columns_to_entities, whitelist) ==
    [df |-> dataframe,
     columns_to_entities |-> columns_to_entities,
     whitelist |-> whitelist,
     defaulted |-> {},
     is_pseudonomised |-> FALSE,
     glossary |-> <<>>]

\* DataSource.__init__ called without columns_to_entities and whitelist:
\* self.columns_to_entities and self.whitelist are the default objects
DataSource_defaulted(dataframe) ==
    [df |-> dataframe,
     columns_to_entities |-> <<>>,
     whitelist |-> {},
     defaulted |-> {"columns_to_entities", "whitelist"},
     is_pseudonomised |-> FALSE,
     glossary |-> <<>>]

dict_set(d, k, v) == [x \in (DOMAIN d) \cup {k} |-> IF x = k THEN v ELSE d[x]]

\* every column started on the default, the empty mapping
dict_get_Fresh(store, ent) == EmptyDict

\* self.pseudonomisation.get(ent, {})
dict_get(store, ent) == IF ent \in DOMAIN store THEN store[ent] ELSE EmptyDict

dict_keys(columns_to_entities) ==
    {columns_to_entities[i][1] : i \in DOMAIN columns_to_entities}

nrows(df) == IF DOMAIN df = {} THEN 0 ELSE Len(df[CHOOSE c \in DOMAIN df : TRUE])

ExtIdle == [pc |-> "idle", ent |-> "", existing |-> EmptyDict,
            real_ids |-> <<>>, error |-> "none", mapping |-> EmptyDict]

ClsIdle == [columns |-> {}, id_columns |-> {}, done |-> FALSE]

TransferIdle == [pc |-> "idle"]

SqlIdle == [pc |-> "idle", temp_table_name |-> <<>>, id_set |-> <<>>,
            is_int |-> TRUE, batch_size |-> 1, error |-> "none",
            inserts |-> <<>>]

\* glossary: dict = dict(), columns_to_entities: dict = dict() and
\* whitelist: set = set(): the objects are created once, when the function
\* is defined, and every call that leaves the argument out gets the same
\* object
DefaultArgs == [columns_to_entities |-> <<>>, whitelist |-> {}]

\* data_source.columns_to_entities, read through the reference the
\* attribute holds
columns_to_entities_of(data_source, defaults) ==
    IF "columns_to_entities" \in data_source.defaulted
    THEN defaults.columns_to_entities
    ELSE data_source.columns_to_entities

\* data_source.whitelist, read through the reference the attribute holds
whitelist_of(data_source, defaults) ==
    IF "whitelist" \in data_source.defaulted
    THEN defaults.whitelist
    ELSE data_source.whitelist

\* no pickle has been written
NoFile == [exists |-> FALSE, data_sources |-> EmptyDict,
           pseudonomisation |-> EmptyDict]

\* DataExtract.__init__
ExtractInit ==
    /\ data_sources = EmptyDict
    /\ source_order = <<>>
    /\ pseudonomisation = EmptyDict
    /\ csv_files = EmptyDict
    /\ readme = [exists |-> FALSE, samples |-> EmptyDict]
    /\ toc_anchors = {}
    /\ archive_zip = [exists |-> FALSE, csv_files |-> EmptyDict,
                      readme |-> [exists |-> FALSE, samples |-> EmptyDict]]
    /\ containers = {}
    /\ blobs = {}
    /\ private_file = NoFile
    /\ default_args = DefaultArgs
    /\ local_files = EmptyDict
    /\ last = Outcome("init", <<>>, "none", {})

\* ------------------------------------------------------ add_data_source
\* self.data_sources[data_source.name] = data_source: a new key is appended
\* to the dict, an existing key keeps its place and gets the new source
add_data_source(name, data_source) ==
    /\ data_sources' = dict_set(data_sources, name, data_source)
    /\ source_order' = IF name \in DOMAIN data_sources
                       THEN source_order
                       ELSE Append(source_order, name)

AddDataSource(name, data_source) ==
    /\ add_data_source(name, data_source)
    /\ last' = Outcome("add_data_source", <<name>>, "none", {})
    /\ UNCHANGED <<pseudonomisation, csv_files, readme, toc_anchors,
                   archive_zip, containers, blobs, private_file, local_files,
                   default_args, ext, cls, sql, transfer>>

\* get_or_set_data_source: the source is built and added only when the name
\* is not registered
GetOrSetDataSource(name, data_source) ==
    /\ IF name \in DOMAIN data_sources
       THEN UNCHANGED <<data_sources, source_order>>
       ELSE add_data_source(name, data_source)
    /\ last' = Outcome("get_or_set_data_source", <<name>>, "none", {})
    /\ UNCHANGED <<pseudonomisation, csv_files, readme, toc_anchors,
                   archive_zip, containers, blobs, private_file, local_files,
                   default_args, ext, cls, sql, transfer>>

\* --------------------------------------------------------- pseudonomise
\* the loop over columns_to_entities.items(), from pair i on; the result
\* is the dataframe and the store as the loop leaves them, and the error
\* that ended it
\* dataframe[:] = cells: every column assigned
set_column_All(df, col, cells) == [c \in DOMAIN df |-> cells]

\* dataframe[col] = cells
set_column(df, col, cells) == [df EXCEPT ![col] = cells]

RECURSIVE pseudonomise_loop(_, _, _, _)
pseudonomise_loop(df, store, columns_to_entities, i) ==
    IF i > Len(columns_to_entities)
    THEN [df |-> df, store |-> store, error |-> "none"]
    ELSE
      LET col == columns_to_entities[i][1]
          ent == columns_to_entities[i][2]
          existing == dict_get(store, ent)
      IN  IF col \notin DOMAIN df
          THEN [df |-> df, store |-> store, error |-> "KeyError"]
          ELSE
            LET r == real_id_to_pseudo_id(df[col], existing)
            IN  IF r.error # "none"
                THEN [df |-> df, store |-> store, error |-> r.error]
                ELSE pseudonomise_loop(
                       set_column(df, col, series_map(df[col], r.mapping)),
                       dict_set(store, ent, r.mapping),
                       columns_to_entities, i + 1)

\* the one-shot assertion left out
already_pseudonomised_Never(data_source) == FALSE

\* the second assertion of pseudonomise
already_pseudonomised(data_source) == data_source.is_pseudonomised

\* the flag set on every exit of the loop
flag_after_Always(error) == TRUE

\* the last line of pseudonomise is reached when no column raised
flag_after(error) == error = "none"

\* the whitelist intersected where it is to be subtracted
missed_columns_Intersect(data_source) ==
    (id_columns_of(DOMAIN data_source.df)
        \ dict_keys(columns_to_entities_of(data_source, default_args)))
      \cap whitelist_of(data_source, default_args)

missed_columns(data_source) ==
    (id_columns_of(DOMAIN data_source.df)
        \ dict_keys(columns_to_entities_of(data_source, default_args)))
      \ whitelist_of(data_source, default_args)

None == "None"

\* a name that is not registered resolved to some registered source
data_sources_get_Any(sources, name) ==
    IF name \in DOMAIN sources THEN name
    ELSE IF DOMAIN sources # {} THEN CHOOSE n \in DOMAIN sources : TRUE
    ELSE None

\* self.data_sources.get(data_source_name, None): the key of the source
\* that the lookup returns, None when the name is not registered
data_sources_get(sources, name) ==
    IF name \in DOMAIN sources THEN name ELSE None

Pseudonomise(name) ==
    /\ UNCHANGED <<source_order, csv_files, readme, toc_anchors, archive_zip,
                   containers, blobs, private_file, local_files, default_args,
                   ext, cls, sql, transfer>>
    /\ IF data_sources_get(data_sources, name) = None
       THEN /\ last' = Outcome("pseudonomise", <<name>>, "NotFound", {})
            /\ UNCHANGED <<data_sources, pseudonomisation>>
       ELSE
         LET key == data_sources_get(data_sources, name)
             data_source == data_sources[key]
             missed == missed_columns(data_source)
             r == pseudonomise_loop(
                    data_source.df, pseudonomisation,
                    columns_to_entities_of(data_source, default_args), 1)
         IN  IF already_pseudonomised(data_source)
             THEN /\ last' = Outcome("pseudonomise", <<name>>,
                                     "AlreadyPseudonomised", {})
                  /\ UNCHANGED <<data_sources, pseudonomisation>>
             ELSE IF missed # {}
             THEN /\ last' = Outcome("pseudonomise", <<name>>,
                                     "UnhandledIdColumns", missed)
                  /\ UNCHANGED <<data_sources, pseudonomisation>>
             ELSE /\ last' = Outcome("pseudonomise", <<name>>, r.error, {})
                  /\ pseudonomisation' = r.store
                  /\ data_sources' =
                       [data_sources EXCEPT ![key] =
                          [@ EXCEPT !.df = r.df,
                                    !.is_pseudonomised = flag_after(r.error)]]

\* --------------------------------------------------------------- export
\* the file DataSource.export writes; pseudonomised records the flag the
\* exporting source had when the file was written
csv_of(data_source) ==
    [df |-> data_source.df, pseudonomised |-> data_source.is_pseudonomised]

\* the export without its assertion
source_export_Unguarded(data_source, name, csv) ==
    [error |-> "none", csv |-> dict_set(csv, name, csv_of(data_source))]

\* DataSource.export of a source: [error, csv], csv the files afterwards
source_export(data_source, name, csv) ==
    IF data_source.is_pseudonomised # TRUE
    THEN [error |-> "NotPseudonomised", csv |-> csv]
    ELSE [error |-> "none", csv |-> dict_set(csv, name, csv_of(data_source))]

\* DataSource.export() of the registered source called name
ExportSource(name) ==
    /\ name \in DOMAIN data_sources
    /\ LET r == source_export(data_sources[name], name, csv_files)
       IN  /\ csv_files' = r.csv
           /\ last' = Outcome("DataSource.export", <<name>>, r.error, {})
    /\ UNCHANGED <<data_sources, source_order, pseudonomisation, readme,
                   toc_anchors, archive_zip, containers, blobs, private_file,
                   local_files, default_args,
                   ext, cls, sql, transfer>>

\* the loop of DataExtract.export over data_source_names, from place i on
RECURSIVE export_loop(_, _, _)
export_loop(csv, data_source_names, i) ==
    IF i > Len(data_source_names)
    THEN [error |-> "none", csv |-> csv]
    ELSE
      LET name == data_source_names[i]
      IN  IF name \notin DOMAIN data_sources
          THEN [error |-> "KeyError", csv |-> csv]
          ELSE
            LET r == source_export(data_sources[name], name, csv)
            IN  IF r.error # "none" THEN r
                ELSE export_loop(r.csv, data_source_names, i + 1)

\* DataExtract.export(data_source_names)
ExportExtract(data_source_names) ==
    /\ LET r == export_loop(csv_files, data_source_names, 1)
       IN  /\ csv_files' = r.csv
           /\ last' = Outcome("DataExtract.export", data_source_names,
                              r.error, {})
    /\ UNCHANGED <<data_sources, source_order, pseudonomisation, readme,
                   toc_anchors, archive_zip, containers, blobs, private_file,
                   local_files, default_args,
                   ext, cls, sql, transfer>>

\* DataExtract.export(None): every registered source, in insertion order
ExportAll == ExportExtract(source_order)

\* --------------------------------------------- generate_markdown_report
\* _generate_table_of_contents over the headings, from place i on, with the
\* anchors dict it was handed: a heading that is already a key fails the
\* assertion, the headings before it stay in the dict
RECURSIVE generate_table_of_contents(_, _, _)
generate_table_of_contents(anchors, headings, i) ==
    IF i > Len(headings)
    THEN [error |-> "none", anchors |-> anchors]
    ELSE IF headings[i] \in anchors
    THEN [error |-> "HeadingExists", anchors |-> anchors]
    ELSE generate_table_of_contents(anchors \cup {headings[i]}, headings, i + 1)

\* the headings of the report in the order the generator visits them
report_headings == <<"Introduction", "Data Sources">> \o source_order

SampleSize == 3

row(df, i) == [c \in DOMAIN df |-> df[c][i]]

\* df.sample(3): three distinct rows chosen at random; the report keeps
\* them as a set of rows
samples_of(df) ==
    {{row(df, i) : i \in I} :
        I \in {J \in SUBSET (1..nrows(df)) : Cardinality(J) = SampleSize}}

\* add_markdown_report asks for a sample when the dataframe has a row, and
\* df.sample(3) raises when it has fewer than three
sample_fails(df) == nrows(df) > 0 /\ nrows(df) < SampleSize

GenerateMarkdownReport ==
    /\ LET toc == generate_table_of_contents(toc_anchors, report_headings, 1)
       IN  /\ toc_anchors' = toc.anchors
           /\ IF toc.error # "none"
              THEN /\ last' = Outcome("generate_markdown_report", <<>>,
                                      toc.error, {})
                   /\ UNCHANGED readme
              ELSE IF \E n \in DOMAIN data_sources :
                         sample_fails(data_sources[n].df)
              THEN /\ last' = Outcome("generate_markdown_report", <<>>,
                                      "ValueError", {})
                   /\ UNCHANGED readme
              ELSE /\ last' = Outcome("generate_markdown_report", <<>>,
                                      "none", {})
                   /\ \E samples \in
                          [DOMAIN data_sources ->
                              UNION {samples_of(data_sources[n].df) \cup {{}} :
                                       n \in DOMAIN data_sources}] :
                        /\ \A n \in DOMAIN data_sources :
                              IF nrows(data_sources[n].df) = 0
                              THEN samples[n] = {}
                              ELSE samples[n] \in samples_of(data_sources[n].df)
                        /\ readme' = [exists |-> TRUE, samples |-> samples]
    /\ UNCHANGED <<data_sources, source_order, pseudonomisation, csv_files,
                   archive_zip, containers, blobs, private_file, local_files,
                   default_args, ext, cls, sql, transfer>>

\* -------------------------------------------------------------- archive
\* zip_folder writes the archive of the public folder; Blobs(container_name)
\* creates the container when it does not exist; Blobs has no method
\* upload_file, so the call on the last line raises AttributeError
Archive(container_name) ==
    /\ archive_zip' = [exists |-> TRUE, csv_files |-> csv_files,
                       readme |-> readme]
    /\ containers' = containers \cup {container_name}
    /\ UNCHANGED blobs
    /\ last' = Outcome("archive", <<container_name>>, "AttributeError", {})
    /\ UNCHANGED <<data_sources, source_order, pseudonomisation, csv_files,
                   readme, toc_anchors, private_file, local_files, default_args,
                   ext, cls, sql, transfer>>

\* ------------------------------------------------------ update_glossary
\* the source built again from its dataframe and declarations
update_glossary_Rebuild(data_source, d) ==
    [DataSource(data_source.df, data_source.columns_to_entities,
                data_source.whitelist)
        EXCEPT !.glossary = dict_merge(data_source.glossary, d)]

\* self.glossary = dict(self.glossary, **d)
update_glossary(data_source, d) ==
    [data_source EXCEPT !.glossary = dict_merge(@, d)]

\* DataSource.update_glossary(d) of the registered source called name
UpdateGlossary(name, d) ==
    /\ name \in DOMAIN data_sources
    /\ data_sources' =
          [data_sources EXCEPT ![name] = update_glossary(@, d)]
    /\ last' = Outcome("update_glossary", <<name>>, "none", {})
    /\ UNCHANGED <<source_order, pseudonomisation, csv_files, readme,
                   toc_anchors, archive_zip, containers, blobs, private_file,
                   local_files, default_args,
                   ext, cls, sql, transfer>>

\* ------------------------------------------ configuration by the caller
\* d[k] = v on a dict kept as a sequence of pairs: a key that is present
\* keeps its place, a new key goes last
dict_setitem(pairs, k, v) ==
    IF k \in dict_keys(pairs)
    THEN [i \in DOMAIN pairs |-> IF pairs[i][1] = k THEN <<k, v>> ELSE pairs[i]]
    ELSE Append(pairs, <<k, v>>)

\* data_source.whitelist.add(col): the set the attribute refers to changes
\* in place, whoever else refers to it
WhitelistAdd(name, col) ==
    /\ name \in DOMAIN data_sources
    /\ IF "whitelist" \in data_sources[name].defaulted
       THEN /\ default_args' = [default_args EXCEPT !.whitelist = @ \cup {col}]
            /\ UNCHANGED data_sources
       ELSE /\ data_sources' =
                 [data_sources EXCEPT ![name].whitelist = @ \cup {col}]
            /\ UNCHANGED default_args
    /\ last' = Outcome("whitelist.add", <<name, col>>, "none", {})
    /\ UNCHANGED <<source_order, pseudonomisation, csv_files, readme,
                   toc_anchors, archive_zip, containers, blobs, private_file,
                   local_files, ext, cls, sql, transfer>>

\* data_source.columns_to_entities[col] = ent: the dict the attribute refers
\* to changes in place
ColumnsToEntitiesSet(name, col, ent) ==
    /\ name \in DOMAIN data_sources
    /\ IF "columns_to_entities" \in data_sources[name].defaulted
       THEN /\ default_args' =
                 [default_args EXCEPT
                    !.columns_to_entities = dict_setitem(@, col, ent)]
            /\ UNCHANGED data_sources
       ELSE /\ data_sources' =
                 [data_sources EXCEPT
                    ![name].columns_to_entities = dict_setitem(@, col, ent)]
            /\ UNCHANGED default_args
    /\ last' = Outcome("columns_to_entities.set", <<name, col, ent>>, "none", {})
    /\ UNCHANGED <<source_order, pseudonomisation, csv_files, readme,
                   toc_anchors, archive_zip, containers, blobs, private_file,
                   local_files, ext, cls, sql, transfer>>

\* ----------------------------------------------------------------- save
\* pickle.dump(self, file): the extract as it is, its data sources and its
\* store, written to the private file
Save ==
    /\ private_file' = [exists |-> TRUE, data_sources |-> data_sources,
                        pseudonomisation |-> pseudonomisation]
    /\ last' = Outcome("save", <<>>, "none", {})
    /\ UNCHANGED <<data_sources, source_order, pseudonomisation, csv_files,
                   readme, toc_anchors, archive_zip, containers, blobs,
                   local_files, default_args,
                   ext, cls, sql, transfer>>

\* --------------------------------------------------------- Blobs.upload
\* a path is absolute or relative and has a sequence of components, each a
\* sequence of characters; the content of a local file is identified by the
\* absolute path of the file;
\* a blob is [container, name, data], the name being the sequence of the
\* components of the blob name
Path(abs, parts) == [abs |-> abs, parts |-> parts]

\* Path.cwd()
Cwd == Path(TRUE, << <<"w">> >>)

IsPrefix(s, t) == Len(s) <= Len(t) /\ SubSeq(t, 1, Len(s)) = s

\* PurePath.relative_to(other) raises ValueError unless both paths are
\* absolute or both relative and other is a leading part of the path
relative_to_fails(p, other) ==
    ~(p.abs = other.abs /\ IsPrefix(other.parts, p.parts))

relative_to(p, other) == SubSeq(p.parts, Len(other.parts) + 1, Len(p.parts))

\* the operating system resolves a relative path against the working
\* directory
resolve(p) == IF p.abs THEN p.parts ELSE Cwd.parts \o p.parts

is_file(files, p) == resolve(p) \in DOMAIN files

\* the root, the working directory and every folder above a file
is_dir(files, p) ==
    \/ resolve(p) = <<>>
    \/ resolve(p) = Cwd.parts
    \/ \E f \in DOMAIN files : IsPrefix(resolve(p), f) /\ f # resolve(p)

\* os.path.exists
path_exists(files, p) == is_file(files, p) \/ is_dir(files, p)

\* Blobs.upload(filepath, overwrite, container_path) on the blobs of all
\* containers: [error, blobs]; container_path is <<>> for None and <<p>>
\* for the path p
upload(files, store, container, filepath, overwrite, container_path) ==
    LET base == IF container_path # <<>> THEN container_path[1] ELSE Cwd
    IN  IF relative_to_fails(filepath, base)
        THEN [error |-> "ValueError", blobs |-> store]
        ELSE IF ~path_exists(files, filepath)
        THEN [error |-> "FileNotFoundError", blobs |-> store]
        ELSE IF is_dir(files, filepath)
        THEN [error |-> "IsADirectoryError", blobs |-> store]
        ELSE
          LET name == relative_to(filepath, base)
              held == {b \in store : b.container = container /\ b.name = name}
          IN  IF held # {} /\ ~overwrite
              THEN [error |-> "ResourceExistsError", blobs |-> store]
              ELSE [error |-> "none",
                    blobs |-> (store \ held) \cup
                                {[container |-> container, name |-> name,
                                  data |-> files[resolve(filepath)]]}]

Upload(container, filepath, overwrite, container_path) ==
    /\ container \in containers
    /\ LET r == upload(local_files, blobs, container, filepath, overwrite,
                       container_path)
       IN  /\ blobs' = r.blobs
           /\ last' = Outcome("upload", <<filepath, overwrite, container_path>>,
                              r.error, {})
    /\ UNCHANGED <<data_sources, source_order, pseudonomisation, csv_files,
                   readme, toc_anchors, archive_zip, containers, private_file,
                   local_files, default_args,
                   ext, cls, sql, transfer>>

\* ------------------------------------------------------- Blobs.download
\* Blobs.download(blobname, container_path) on the local files: [error,
\* files]; the blob is written to container_path / blobname
download(files, store, container, blobname, container_path) ==
    LET base == IF container_path # <<>> THEN container_path[1] ELSE Cwd
        filepath == Path(base.abs, base.parts \o blobname)
        held == {b \in store : b.container = container /\ b.name = blobname}
    IN  IF held = {}
        THEN [error |-> "FileNotFoundError", files |-> files]
        ELSE [error |-> "none",
              files |-> dict_set(files, resolve(filepath),
                                 (CHOOSE b \in held : TRUE).data)]

\* -------------------------------------------------- _get_file_sync_info
\* str.startswith and str.endswith
startswith(s, prefix) == IsPrefix(prefix, s)

endswith(s, tail) ==
    Len(tail) <= Len(s) /\ SubSeq(s, Len(s) - Len(tail) + 1, Len(s)) = tail

\* PurePath.suffix of a file name: from the last dot on, unless that dot
\* is the first or the last character or there is none
suffix(name) ==
    LET dots == {i \in DOMAIN name : name[i] = "."}
    IN  IF dots = {} THEN <<>>
        ELSE LET i == SetMax(dots)
             IN  IF 1 < i /\ i < Len(name)
                 THEN SubSeq(name, i, Len(name)) ELSE <<>>

\* str(path): the components joined by "/"
RECURSIVE str_of(_)
str_of(parts) ==
    IF parts = <<>> THEN <<>>
    ELSE IF Len(parts) = 1 THEN parts[1]
    ELSE parts[1] \o <<"/">> \o str_of(Tail(parts))

\* the local files that the scan of container_path keeps, each as its
\* path relative to container_path
local_files_of(files, container_path, extensions_to_include) ==
    LET root == resolve(container_path)
    IN  {SubSeq(f, Len(root) + 1, Len(f)) :
           f \in {g \in DOMAIN files :
                    /\ IsPrefix(root, g) /\ g # root
                    /\ LET name == g[Len(g)]
                       IN  /\ ~startswith(name, <<"_">>)
                           /\ ~startswith(name, <<".">>)
                           /\ suffix(name) \in extensions_to_include}}

\* every blob of the container listed, whatever its name
blob_files_of_All(store, container, extensions_to_include) ==
    {x.name : x \in {b \in store : b.container = container}}

\* the blobs of the container whose name ends with an included extension
blob_files_of(store, container, extensions_to_include) ==
    {x.name : x \in {b \in store :
                       /\ b.container = container
                       /\ \E e \in extensions_to_include :
                             endswith(str_of(b.name), e)}}

get_file_sync_info(files, store, container, container_path, extensions_to_include) ==
    LET local == local_files_of(files, container_path, extensions_to_include)
        blob == blob_files_of(store, container, extensions_to_include)
    IN  [local_files |-> local,
         blob_files |-> blob,
         local_missing |-> blob \ local,
         blob_missing |-> local \ blob,
         in_both |-> local \cap blob]

\* ------------------------------------------ batch_download, batch_upload
\* str.lower on the answers a user types
lower(choice) ==
    CASE choice = "Y" -> "y"
      [] choice = "YES" -> "yes"
      [] OTHER -> choice

\* every answer taken for a confirmation
confirmed_Any(choice) == TRUE

\* choice.lower() in {"yes", "y"}
confirmed(choice) == lower(choice) \in {"yes", "y"}

\* the blobs batch_download goes through
blobs_to_download(fsi, is_update_existing, is_add_missing) ==
    (IF is_update_existing THEN fsi.in_both ELSE {})
      \cup (IF is_add_missing THEN fsi.local_missing ELSE {})

\* the files batch_upload goes through
files_to_upload(fsi, is_update_existing, is_add_missing) ==
    (IF is_update_existing THEN fsi.in_both ELSE {})
      \cup (IF is_add_missing THEN fsi.blob_missing ELSE {})

\* the loop of batch_download over the blobs in the order the set yields
\* them, from position i on: [error, files, done], done the blobs
\* downloaded so far, in order; an exception ends the loop
RECURSIVE batch_download_loop(_, _, _, _, _, _, _, _, _)
batch_download_loop(files, store, container, order, i, container_path, is_confirm, answers, done) ==
    IF i > Len(order)
    THEN [error |-> "none", files |-> files, done |-> done]
    ELSE
      LET blob == order[i]
      IN  IF is_confirm /\ ~confirmed(answers[blob])
          THEN batch_download_loop(files, store, container, order, i + 1,
                                   container_path, is_confirm, answers, done)
          ELSE
            LET r == download(files, store, container, blob, <<container_path>>)
            IN  IF r.error # "none"
                THEN [error |-> r.error, files |-> files, done |-> done]
                ELSE batch_download_loop(r.files, store, container, order,
                                         i + 1, container_path, is_confirm,
                                         answers, Append(done, blob))

\* the loop of batch_upload: [error, blobs, done]; a confirmed file is
\* uploaded by its path under container_path, an unconfirmed run hands
\* upload the relative path itself
RECURSIVE batch_upload_loop(_, _, _, _, _, _, _, _, _, _)
batch_upload_loop(files, store, container, order, i, container_path, is_confirm, answers, overwrite, done) ==
    IF i > Len(order)
    THEN [error |-> "none", blobs |-> store, done |-> done]
    ELSE
      LET relative_filepath == order[i]
          absolute_filepath ==
             Path(container_path.abs, container_path.parts \o relative_filepath)
      IN  IF is_confirm /\ ~confirmed(answers[relative_filepath])
          THEN batch_upload_loop(files, store, container, order, i + 1,
                                 container_path, is_confirm, answers,
                                 overwrite, done)
          ELSE
            LET r == IF is_confirm
                     THEN upload(files, store, container, absolute_filepath,
                                 overwrite, <<container_path>>)
                     ELSE upload(files, store, container,
                                 Path(FALSE, relative_filepath),
                                 overwrite, <<container_path>>)
            IN  IF r.error # "none"
                THEN [error |-> r.error, blobs |-> store, done |-> done]
                ELSE batch_upload_loop(files, r.blobs, container, order,
                                       i + 1, container_path, is_confirm,
                                       answers, overwrite,
                                       Append(done, relative_filepath))

\* the orders in which a loop may go through a set
Orders(S) == {s \in [1..Cardinality(S) -> S] : Range(s) = S}

\* container_path of a batch call: None stands for the working directory
container_path_of(container_path) ==
    IF container_path # <<>> THEN container_path[1] ELSE Cwd

BatchDownload(container) ==
    /\ transfer.pc = "call"
    /\ transfer.method = "batch_download"
    /\ container \in containers
    /\ LET container_path == container_path_of(transfer.container_path)
           fsi == get_file_sync_info(local_files, blobs, container,
                                     container_path,
                                     transfer.extensions_to_include)
           todo == blobs_to_download(fsi, transfer.is_update_existing,
                                     transfer.is_add_missing)
       IN  \E order \in Orders(todo) :
              LET r == batch_download_loop(local_files, blobs, container,
                                           order, 1, container_path,
                                           transfer.is_confirm,
                                           transfer.answers, <<>>)
              IN  /\ local_files' = r.files
                  /\ transfer' = [transfer EXCEPT !.pc = "done",
                                                  !.fsi = fsi,
                                                  !.order = order,
                                                  !.error = r.error,
                                                  !.done = r.done]
                  /\ last' = Outcome("batch_download", <<container>>,
                                     r.error, {})
    /\ UNCHANGED <<data_sources, source_order, pseudonomisation, csv_files,
                   readme, toc_anchors, archive_zip, containers, blobs,
                   private_file, default_args, ext, cls, sql>>

BatchUpload(container) ==
    /\ transfer.pc = "call"
    /\ transfer.method = "batch_upload"
    /\ container \in containers
    /\ LET container_path == container_path_of(transfer.container_path)
           fsi == get_file_sync_info(local_files, blobs, container,
                                     container_path,
                                     transfer.extensions_to_include)
           todo == files_to_upload(fsi, transfer.is_update_existing,
                                   transfer.is_add_missing)
       IN  \E order \in Orders(todo) :
              LET r == batch_upload_loop(local_files, blobs, container,
                                         order, 1, container_path,
                                         transfer.is_confirm,
                                         transfer.answers,
                                         transfer.overwrite, <<>>)
              IN  /\ blobs' = r.blobs
                  /\ transfer' = [transfer EXCEPT !.pc = "done",
                                                  !.fsi = fsi,
                                                  !.order = order,
                                                  !.error = r.error,
                                                  !.done = r.done]
                  /\ last' = Outcome("batch_upload", <<container>>,
                                     r.error, {})
    /\ UNCHANGED <<data_sources, source_order, pseudonomisation, csv_files,
                   readme, toc_anchors, archive_zip, containers, local_files,
                   private_file, default_args, ext, cls, sql>>

\* ---------------------------------------------------- eedata Blobs.sync
\* the class attribute local_path = "data"
local_path == <<"data">>

\* eedata Blobs.upload(filename, overwrite): the file is read from
\* os.path.join(self.local_path, filename); [error, blobs]
eedata_upload(files, store, container, filename, overwrite) ==
    LET local_file_path == Path(FALSE, <<local_path, filename>>)
        name == <<filename>>
        held == {b \in store : b.container = container /\ b.name = name}
    IN  IF ~path_exists(files, local_file_path)
        THEN [error |-> "FileNotFoundError", blobs |-> store]
        ELSE IF held # {} /\ ~overwrite
        THEN [error |-> "ResourceExistsError", blobs |-> store]
        ELSE [error |-> "none",
              blobs |-> (store \ held) \cup
                          {[container |-> container, name |-> name,
                            data |-> files[resolve(local_file_path)]]}]

\* eedata Blobs.download(filename): the blob is written to
\* os.path.join(self.local_path, filename); [error, files]
eedata_download(files, store, container, filename) ==
    LET local_file_path == Path(FALSE, <<local_path, filename>>)
        held == {b \in store : b.container = container /\ b.name = <<filename>>}
    IN  IF held = {}
        THEN [error |-> "FileNotFoundError", files |-> files]
        ELSE [error |-> "none",
              files |-> dict_set(files, resolve(local_file_path),
                                 (CHOOSE b \in held : TRUE).data)]

\* the names os.listdir(localpath) gives, without those that start with "."
listdir_visible(files, localpath) ==
    LET root == resolve(Path(FALSE, <<localpath>>))
    IN  {f[Len(f)] : f \in {g \in DOMAIN files :
                              /\ Len(g) = Len(root) + 1
                              /\ IsPrefix(root, g)
                              /\ ~startswith(g[Len(g)], <<".">>)}}

\* the names of the blobs of the container
blob_names(store, container) ==
    {b.name[1] : b \in {x \in store : x.container = container}}

\* choice.lower() in {"yes", "y", "yeah"}
sync_confirmed(choice) == lower(choice) \in {"yes", "y", "yeah"}

\* the files in the order the set yields them: rank lists every name once
RECURSIVE in_rank_order(_, _)
in_rank_order(S, rank) ==
    IF rank = <<>> THEN <<>>
    ELSE (IF Head(rank) \in S THEN <<Head(rank)>> ELSE <<>>)
            \o in_rank_order(S, Tail(rank))

\* the loop over the files of one sync: [error, files, blobs, done], done
\* the transfers made, in order
RECURSIVE sync_loop(_, _, _, _, _, _, _, _, _)
sync_loop(files, store, container, order, i, direction, choose, answers, done) ==
    IF i > Len(order)
    THEN [error |-> "none", files |-> files, blobs |-> store, done |-> done]
    ELSE
      LET w == order[i]
      IN  IF choose = "True" /\ ~sync_confirmed(answers[w])
          THEN sync_loop(files, store, container, order, i + 1, direction,
                         choose, answers, done)
          ELSE
            LET up == eedata_upload(files, store, container, w, TRUE)
                down == eedata_download(files, store, container, w)
                error == IF direction = "upload" THEN up.error ELSE down.error
            IN  IF error # "none"
                THEN [error |-> error, files |-> files, blobs |-> store,
                      done |-> done]
                ELSE sync_loop(
                       IF direction = "upload" THEN files ELSE down.files,
                       IF direction = "upload" THEN up.blobs ELSE store,
                       container, order, i + 1, direction, choose, answers,
                       Append(done, [op |-> direction, name |-> w]))

\* sync with which "existing" or "missing", after the validation
sync_once(files, store, container, direction, which, choose, localpath, answers, rank) ==
    LET blob_files == blob_names(store, container)
        visible == listdir_visible(files, localpath)
        todo == IF which = "existing" THEN visible \cap blob_files
                ELSE IF direction = "upload" THEN visible \ blob_files
                ELSE blob_files \ visible
    IN  sync_loop(files, store, container, in_rank_order(todo, rank), 1,
                  direction, choose, answers, <<>>)

\* the keyword validation of sync
keywords_valid(direction, which, choose) ==
    /\ which \in {"missing", "existing", "all"}
    /\ choose \in {"True", "False"}
    /\ direction \in {"upload", "download"}

\* Blobs.sync(direction, which, choose, localpath): [error, files, blobs,
\* done]
sync(files, store, container, direction, which, choose, localpath, answers, rank) ==
    IF ~keywords_valid(direction, which, choose)
    THEN [error |-> "none", files |-> files, blobs |-> store, done |-> <<>>]
    ELSE IF which = "all"
    THEN LET first == sync_once(files, store, container, direction,
                                "existing", choose, localpath, answers, rank)
             second == sync_once(first.files, first.blobs, container,
                                 direction, "missing", choose, localpath,
                                 answers, rank)
         IN  IF first.error # "none" THEN first
             ELSE [second EXCEPT !.done = first.done \o second.done]
    ELSE sync_once(files, store, container, direction, which, choose,
                   localpath, answers, rank)

Sync(container) ==
    /\ transfer.pc = "call"
    /\ transfer.method = "sync"
    /\ container \in containers
    /\ \E rank \in Orders(DOMAIN transfer.answers) :
          LET r == sync(local_files, blobs, container, transfer.direction,
                        transfer.which, transfer.choose, transfer.localpath,
                        transfer.answers, rank)
          IN  /\ local_files' = r.files
              /\ blobs' = r.blobs
              /\ transfer' = [transfer EXCEPT !.pc = "done", !.order = rank,
                                              !.error = r.error,
                                              !.done = r.done]
              /\ last' = Outcome("sync", <<container>>, r.error, {})
    /\ UNCHANGED <<data_sources, source_order, pseudonomisation, csv_files,
                   readme, toc_anchors, archive_zip, containers,
                   private_file, default_args, ext, cls, sql>>

\* ------------------------------------------- the lifecycle specification
\* the data sources a caller registers: the dataframes of the documented
\* scenarios, with three rows or more where the report samples them
Col1(c, cells) == [x \in {c} |-> cells]
Col2(c1, cells1, c2, cells2) == [x \in {c1, c2} |-> IF x = c1 THEN cells1 ELSE cells2]

UserIsUser == << <<UserId, "User">> >>

SrcEndToEnd ==
    DataSource(Col1(UserId, <<IntCell(1), IntCell(2), IntCell(1), NaN>>),
               UserIsUser, {})
SrcSecond ==
    DataSource(Col1(UserId, <<IntCell(2), IntCell(3)>>), UserIsUser, {})
SrcMissed ==
    DataSource(Col2(UserId, <<IntCell(1), IntCell(2), IntCell(3)>>,
                    quizID, <<IntCell(1), IntCell(1), IntCell(2)>>),
               UserIsUser, {})
SrcWhitelisted ==
    DataSource(Col2(UserId, <<IntCell(3), IntCell(1), IntCell(1)>>,
                    quizID, <<IntCell(1), IntCell(1), IntCell(2)>>),
               UserIsUser, {quizID})
SrcPartial ==
    DataSource(Col2(UserId, <<IntCell(1), IntCell(2), IntCell(2)>>,
                    Score, <<IntCell(1), StrCell, IntCell(2)>>),
               << <<UserId, "User">>, <<Score, "Quiz">> >>, {})
SrcEmpty ==
    DataSource(Col1(UserId, <<>>), UserIsUser, {})

Sources == {SrcEndToEnd, SrcSecond, SrcMissed, SrcPartial}

\* the data sources of the report specification
ReportSources == {SrcEndToEnd, SrcSecond, SrcMissed, SrcWhitelisted, SrcEmpty}

\* the lists of names a caller hands to DataExtract.export
ExportLists == {<<"s1">>, <<"s2">>, <<"s1", "s2">>, <<"s2", "s1">>}

Init ==
    /\ ExtractInit
    /\ ext = ExtIdle
    /\ cls = ClsIdle
    /\ sql = SqlIdle
    /\ transfer = TransferIdle

Next ==
    \/ \E n \in SourceNames, src \in Sources : AddDataSource(n, src)
    \/ \E n \in SourceNames, src \in Sources : GetOrSetDataSource(n, src)
    \/ \E n \in SourceNames : Pseudonomise(n)
    \/ \E n \in SourceNames : ExportSource(n)
    \/ \E names \in ExportLists : ExportExtract(names)
    \/ ExportAll

Spec == Init /\ [][Next]_vars

\* ---------------------------------------------- the report specification
\* registration, pseudonomisation and export followed by the report and
\* the archive of the public folder
NextReport ==
    \/ \E n \in SourceNames, src \in ReportSources : GetOrSetDataSource(n, src)
    \/ \E n \in SourceNames : Pseudonomise(n)
    \/ ExportAll
    \/ GenerateMarkdownReport
    \/ \E c \in ContainerNames : Archive(c)

SpecReport == Init /\ [][NextReport]_vars

\* ------------------------------------------ the operations specification
\* every operation of DataExtract and DataSource on one registered name
Glossaries == {[c \in {UserId} |-> "the user"]}

OperationSources == {SrcEndToEnd, SrcPartial}

NextOperations ==
    \/ \E src \in OperationSources : AddDataSource("s1", src)
    \/ \E src \in OperationSources : GetOrSetDataSource("s1", src)
    \/ \E n \in SourceNames : Pseudonomise(n)
    \/ ExportSource("s1")
    \/ ExportAll
    \/ \E d \in Glossaries : UpdateGlossary("s1", d)
    \/ GenerateMarkdownReport
    \/ Save

SpecOperations == Init /\ [][NextOperations]_vars

\* --------------------------------------- the configuration specification
\* sources constructed with and without their declarations, configured by
\* the caller after construction and then pseudonomised
SrcBare ==
    DataSource_defaulted(Col2(UserId, <<IntCell(1), IntCell(2)>>,
                              quizID, <<IntCell(1), IntCell(1)>>))
SrcBareSecond ==
    DataSource_defaulted(Col2(UserId, <<IntCell(2), IntCell(3)>>,
                              quizID, <<IntCell(2), IntCell(2)>>))
SrcQuiz ==
    DataSource(Col2(UserId, <<IntCell(1), IntCell(2)>>,
                    quizID, <<IntCell(2), IntCell(1)>>),
               << <<UserId, "User">>, <<quizID, "Quiz">> >>, {})

ConfigureSources == {SrcBare, SrcBareSecond, SrcWhitelisted, SrcQuiz}

NextConfigure ==
    \/ \E n \in SourceNames, src \in ConfigureSources : GetOrSetDataSource(n, src)
    \/ \E n \in SourceNames : WhitelistAdd(n, quizID)
    \/ \E n \in SourceNames, p \in {<<UserId, "User">>, <<quizID, "Quiz">>} :
          ColumnsToEntitiesSet(n, p[1], p[2])
    \/ \E n \in SourceNames : Pseudonomise(n)

SpecConfigure == Init /\ [][NextConfigure]_vars

\* ----------------------------------------- the pseudonomise specification
\* one data source, registered under "s1", with any dataframe, declaration
\* and whitelist within the bounds; "s2" is not registered
ColumnPool == {UserId, quizID, Score}

ColumnSets == SubsetsUpTo(ColumnPool, MaxCols)

Dataframes == UNION {[cols -> [1..r -> Cells]] : cols \in ColumnSets, r \in 0..MaxRows}

\* a dict has each key once
Declarations ==
    {d \in SeqsUpTo(ColumnPool \X Entities, MaxPairs) :
        \A i, j \in DOMAIN d : d[i][1] = d[j][1] => i = j}

Whitelists == SUBSET {UserId, quizID}

InitPseudonomise ==
    /\ \E df \in Dataframes, d \in Declarations, w \in Whitelists :
          data_sources = [n \in {"s1"} |-> DataSource(df, d, w)]
    /\ source_order = <<"s1">>
    /\ pseudonomisation = EmptyDict
    /\ csv_files = EmptyDict
    /\ readme = [exists |-> FALSE, samples |-> EmptyDict]
    /\ toc_anchors = {}
    /\ archive_zip = [exists |-> FALSE, csv_files |-> EmptyDict,
                      readme |-> [exists |-> FALSE, samples |-> EmptyDict]]
    /\ containers = {}
    /\ blobs = {}
    /\ private_file = NoFile
    /\ default_args = DefaultArgs
    /\ local_files = EmptyDict
    /\ last = Outcome("add_data_source", <<"s1">>, "none", {})
    /\ ext = ExtIdle
    /\ cls = ClsIdle
    /\ sql = SqlIdle
    /\ transfer = TransferIdle

NextPseudonomise == \E n \in SourceNames : Pseudonomise(n)

SpecPseudonomise == InitPseudonomise /\ [][NextPseudonomise]_vars

\* ---------------------------------------------- the mapping specification
\* the step of pseudonomise for one column of one entity, on its own: the
\* mapping of the entity is fetched and the column handed over (ExtCall),
\* __real_id_to_pseudo_id runs (ExtRun), and the mapping it returns is
\* stored back for the entity (ExtStore)
ExtCall(ent, real_ids) ==
    /\ ext.pc = "idle"
    /\ ext' = [ext EXCEPT !.pc = "called", !.ent = ent,
                          !.existing = dict_get(pseudonomisation, ent),
                          !.real_ids = real_ids]
    /\ UNCHANGED <<extract_vars, cls, sql, transfer>>

ExtRun ==
    /\ ext.pc = "called"
    /\ LET r == real_id_to_pseudo_id(ext.real_ids, ext.existing)
       IN  ext' = [ext EXCEPT !.pc = "returned", !.error = r.error,
                              !.mapping = r.mapping]
    /\ UNCHANGED <<extract_vars, cls, sql, transfer>>

\* an error leaves pseudonomise before the assignment to the store
ExtStore ==
    /\ ext.pc = "returned"
    /\ pseudonomisation' = IF ext.error = "none"
                           THEN dict_set(pseudonomisation, ext.ent, ext.mapping)
                           ELSE pseudonomisation
    /\ ext' = ExtIdle
    /\ UNCHANGED <<data_sources, source_order, csv_files, readme, toc_anchors,
                   archive_zip, containers, blobs, private_file,
                   local_files, default_args, last, cls, sql, transfer>>

NextExtend ==
    \/ \E real_ids \in SeqsUpTo(Cells, MaxLen) : ExtCall("User", real_ids)
    \/ ExtRun
    \/ ExtStore

SpecExtend == Init /\ [][NextExtend]_vars

\* ----------------------------------------------- the upload specification
\* a Blobs object on its container, any local files within the bounds, and
\* uploads of any path
PathNames == {<<"w">>, <<"a">>}

PartsUpTo == SeqsUpTo(PathNames, MaxDepth)

Paths == {Path(abs, parts) : abs \in BOOLEAN, parts \in PartsUpTo}

\* the containing folders a caller names: None, or a path above the
\* deepest files
ContainerPaths ==
    {<<>>} \cup {<<Path(abs, parts)>> :
                   abs \in BOOLEAN, parts \in SeqsUpTo(PathNames, MaxDepth - 1)}

\* the sets of local files: no file is the working directory or a folder
\* above another file
FileSets ==
    {F \in SubsetsUpTo(PartsUpTo \ {<<>>, Cwd.parts}, MaxFiles) :
        \A f, g \in F : IsPrefix(f, g) => f = g}

InitUpload ==
    /\ data_sources = EmptyDict
    /\ source_order = <<>>
    /\ pseudonomisation = EmptyDict
    /\ csv_files = EmptyDict
    /\ readme = [exists |-> FALSE, samples |-> EmptyDict]
    /\ toc_anchors = {}
    /\ archive_zip = [exists |-> FALSE, csv_files |-> EmptyDict,
                      readme |-> [exists |-> FALSE, samples |-> EmptyDict]]
    /\ containers = ContainerNames
    /\ blobs = {}
    /\ private_file = NoFile
    /\ default_args = DefaultArgs
    /\ \E F \in FileSets : local_files = [f \in F |-> f]
    /\ last = Outcome("Blobs", <<>>, "none", {})
    /\ ext = ExtIdle
    /\ cls = ClsIdle
    /\ sql = SqlIdle
    /\ transfer = TransferIdle

NextUpload ==
    \E c \in ContainerNames, filepath \in Paths, overwrite \in BOOLEAN,
       container_path \in ContainerPaths :
          Upload(c, filepath, overwrite, container_path)

SpecUpload == InitUpload /\ [][NextUpload]_vars

\* ----------------------------------------- create_join_identifiers_table
\* list[lo:hi] of a Python list, positions counted from 0
slice(list, lo, hi) ==
    SubSeq(list, lo + 1, IF hi < Len(list) THEN hi ELSE Len(list))

\* _generate_batch_string: the values of one INSERT, each as it is written
generate_batch_string(batch, is_int) ==
    [i \in DOMAIN batch |->
        IF is_int THEN <<"(", batch[i], ")">> ELSE <<"('", batch[i], "')">>]

\* the batches counted from the length itself
n_batches_Floor(n, batch_size) == n \div batch_size

\* n_batches = (len(id_list) - 1) // batch_size, a floor division
n_batches(n, batch_size) == (n - 1) \div batch_size

\* the function: [error, inserts], inserts the INSERT statements in the
\* order they are appended to insert_string
create_join_identifiers_table(temp_table_name, id_set, is_int, batch_size) ==
    IF temp_table_name = <<>>
    THEN [error |-> "IndexError", inserts |-> <<>>]
    ELSE IF temp_table_name[1] # "#"
    THEN [error |-> "AssertionError", inserts |-> <<>>]
    ELSE
      LET id_list == id_set
          n == n_batches(Len(id_list), batch_size)
      IN  [error |-> "none",
           inserts |->
             [k \in 1..(n + 1) |->
                [table |-> temp_table_name,
                 values |-> generate_batch_string(
                              slice(id_list, (k - 1) * batch_size,
                                    k * batch_size), is_int)]]]

\* ----------------------------------------- the join table specification
\* the function applied to every table name, identifier list and batch
\* size of the bounds
InitJoin ==
    /\ ExtractInit
    /\ ext = ExtIdle
    /\ cls = ClsIdle
    /\ transfer = TransferIdle
    /\ \E temp_table_name \in {<<>>, <<"#", "t">>, <<"t">>, <<"t", "#">>}, id_set \in SeqsUpTo(1..MaxId, MaxIds),
          is_int \in BOOLEAN, batch_size \in 1..MaxBatch :
          sql = [pc |-> "call", temp_table_name |-> temp_table_name,
                 id_set |-> id_set, is_int |-> is_int,
                 batch_size |-> batch_size, error |-> "none",
                 inserts |-> <<>>]

CreateJoinIdentifiersTable ==
    /\ sql.pc = "call"
    /\ LET r == create_join_identifiers_table(sql.temp_table_name, sql.id_set,
                                              sql.is_int, sql.batch_size)
       IN  sql' = [sql EXCEPT !.pc = "done", !.error = r.error,
                              !.inserts = r.inserts]
    /\ UNCHANGED <<extract_vars, ext, cls, transfer>>

NextJoin == CreateJoinIdentifiersTable

SpecJoin == InitJoin /\ [][NextJoin]_vars

\* ------------------------------------------------ the batch specification
\* a Blobs object on its container, local files under the working
\* directory, blobs already in the container, and one batch call
Folder == <<"d">>

\* file names with an included extension, without and with a leading
\* underscore; RelativeNames adds a name with nothing before the dot and
\* one with another extension
NameCsv == <<"a", ".", "c">>
NameUnderscore == <<"_", ".", "c">>

\* paths relative to the working directory, and blob names
RelativeNames ==
    {<<NameCsv>>, <<NameUnderscore>>, << <<".", "c">> >>,
     << <<"a", ".", "t">> >>, <<Folder, NameCsv>>}

\* the data of a blob that was in the container before the call
remote_data(name) == <<"remote">> \o name

BatchCall(method, container_path, extensions_to_include, is_update_existing, is_add_missing, is_confirm, overwrite, answers) ==
    [pc |-> "call", method |-> method, container_path |-> container_path,
     extensions_to_include |-> extensions_to_include,
     is_update_existing |-> is_update_existing,
     is_add_missing |-> is_add_missing, is_confirm |-> is_confirm,
     overwrite |-> overwrite, answers |-> answers,
     fsi |-> <<>>, order |-> <<>>, error |-> "none", done |-> <<>>]

InitBatch ==
    /\ data_sources = EmptyDict
    /\ source_order = <<>>
    /\ pseudonomisation = EmptyDict
    /\ csv_files = EmptyDict
    /\ readme = [exists |-> FALSE, samples |-> EmptyDict]
    /\ toc_anchors = {}
    /\ archive_zip = [exists |-> FALSE, csv_files |-> EmptyDict,
                      readme |-> [exists |-> FALSE, samples |-> EmptyDict]]
    /\ containers = ContainerNames
    /\ private_file = NoFile
    /\ default_args = DefaultArgs
    /\ last = Outcome("Blobs", <<>>, "none", {})
    /\ ext = ExtIdle
    /\ cls = ClsIdle
    /\ sql = SqlIdle
    /\ \E L \in SubsetsUpTo(RelativeNames, MaxFiles),
          B \in SubsetsUpTo(RelativeNames, MaxBlobs) :
          /\ local_files = [f \in {Cwd.parts \o n : n \in L} |-> f]
          /\ blobs = {[container |-> c, name |-> n, data |-> remote_data(n)] :
                         c \in ContainerNames, n \in B}
    /\ \E method \in {"batch_download", "batch_upload"},
          \* None, the working directory as ".", and a folder of it
          container_path \in {<<>>, <<Path(FALSE, <<>>)>>,
                              <<Path(FALSE, <<Folder>>)>>},
          extensions_to_include \in {{<<".", "c">>},
                                     {<<".", "c">>, <<".", "t">>}},
          is_update_existing \in BOOLEAN, is_add_missing \in BOOLEAN,
          is_confirm \in BOOLEAN, overwrite \in BOOLEAN :
          /\ method = "batch_download" => overwrite
          /\ LET fsi == get_file_sync_info(
                           local_files, blobs,
                           CHOOSE c \in ContainerNames : TRUE,
                           container_path_of(container_path),
                           extensions_to_include)
                 asked == IF ~is_confirm THEN {}
                          ELSE IF method = "batch_download"
                          THEN blobs_to_download(fsi, is_update_existing,
                                                 is_add_missing)
                          ELSE files_to_upload(fsi, is_update_existing,
                                               is_add_missing)
             IN  \E answers \in [asked -> {"yes", "Y", "no"}] :
                    transfer = BatchCall(method, container_path,
                                         extensions_to_include,
                                         is_update_existing, is_add_missing,
                                         is_confirm, overwrite, answers)

NextBatch ==
    \/ \E c \in ContainerNames : BatchDownload(c)
    \/ \E c \in ContainerNames : BatchUpload(c)

SpecBatch == InitBatch /\ [][NextBatch]_vars

\* ------------------------------------------------- the sync specification
\* an eedata Blobs object on its container, files in the data folder and
\* in another folder of the working directory, blobs already in the
\* container, and one call of sync
SyncNames == {<<"a">>, <<"b">>, <<".", "h">>}

InitSync ==
    /\ data_sources = EmptyDict
    /\ source_order = <<>>
    /\ pseudonomisation = EmptyDict
    /\ csv_files = EmptyDict
    /\ readme = [exists |-> FALSE, samples |-> EmptyDict]
    /\ toc_anchors = {}
    /\ archive_zip = [exists |-> FALSE, csv_files |-> EmptyDict,
                      readme |-> [exists |-> FALSE, samples |-> EmptyDict]]
    /\ containers = ContainerNames
    /\ private_file = NoFile
    /\ default_args = DefaultArgs
    /\ last = Outcome("Blobs", <<>>, "none", {})
    /\ ext = ExtIdle
    /\ cls = ClsIdle
    /\ sql = SqlIdle
    /\ \E L \in SubsetsUpTo({<<folder, n>> : folder \in {local_path, <<"other">>},
                                             n \in SyncNames}, MaxFiles),
          B \in SubsetsUpTo(SyncNames, MaxBlobs) :
          /\ local_files = [f \in {Cwd.parts \o n : n \in L} |-> f]
          /\ blobs = {[container |-> c, name |-> <<n>>,
                       data |-> remote_data(<<n>>)] :
                         c \in ContainerNames, n \in B}
    \* choose is True, False, or a value that is neither
    /\ \E direction \in {"upload", "download", ""},
          which \in {"missing", "existing", "all", "some"},
          choose \in {"True", "False", "maybe"},
          localpath \in {local_path, <<"other">>} :
          \E answers \in [SyncNames ->
                            IF choose = "True" THEN {"yeah", "no"} ELSE {"no"}] :
             transfer = [pc |-> "call", method |-> "sync",
                         direction |-> direction, which |-> which,
                         choose |-> choose, localpath |-> localpath,
                         answers |-> answers, order |-> <<>>,
                         error |-> "none", done |-> <<>>]

NextSync == \E c \in ContainerNames : Sync(c)

SpecSync == InitSync /\ [][NextSync]_vars

\* ------------------------------------------- the classifier specification
\* the classifier applied to any set of column names over the characters
\* that the regular expression tells apart
Chars == {"i", "I", "d", "D", "|", "x", "\n"}

NameSets == SubsetsUpTo(SeqsUpTo(Chars, MaxNameLen), MaxNames)

InitClassify ==
    /\ ExtractInit
    /\ ext = ExtIdle
    /\ sql = SqlIdle
    /\ transfer = TransferIdle
    /\ \E columns \in NameSets :
          cls = [columns |-> columns, id_columns |-> {}, done |-> FALSE]

Classify ==
    /\ ~cls.done
    /\ cls' = [cls EXCEPT !.id_columns = id_columns_of(cls.columns),
                          !.done = TRUE]
    /\ UNCHANGED <<extract_vars, ext, sql, transfer>>

NextClassify == Classify

SpecClassify == InitClassify /\ [][NextClassify]_vars

\* =================================================================== claims
\* the naming convention of section 4.1: the last two characters are "i" or
\* "I" followed by "d" or "D"
LooksLikeId(name) ==
    /\ Len(name) >= 2
    /\ name[Len(name) - 1] \in {"i", "I"}
    /\ name[Len(name)] \in {"d", "D"}

\* the identifier-shaped columns of a source that are neither mapped nor
\* whitelisted
Unaccounted(data_source) ==
    {c \in DOMAIN data_source.df :
        /\ LooksLikeId(c)
        /\ c \notin dict_keys(data_source.columns_to_entities)
        /\ c \notin data_source.whitelist}

\* C1: pseudonomise(name) succeeds only if every identifier-shaped column of
\* the dataframe is a key of columns_to_entities or a member of whitelist;
\* otherwise it fails with the error that names every such column, and
\* leaves the dataframe, the store and the flag (false) as they were.
C1_UnvettedIdColumnsRejected ==
    [][\A n \in DOMAIN data_sources :
         (last'.op = "pseudonomise" /\ last'.arg = <<n>>) =>
            LET ds == data_sources[n]
            IN  /\ last'.error = "none" => Unaccounted(ds) = {}
                /\ Unaccounted(ds) # {} =>
                     /\ last'.error = "UnhandledIdColumns"
                     /\ Unaccounted(ds) \subseteq last'.missed
                     /\ data_sources' = data_sources
                     /\ pseudonomisation' = pseudonomisation
                     /\ ~data_sources'[n].is_pseudonomised]_vars

\* the scenario of section 8: UserId is mapped, quizID is neither mapped nor
\* whitelisted, and the call has failed naming quizID
C1_Witness ==
    /\ last.op = "pseudonomise"
    /\ last.error = "UnhandledIdColumns"
    /\ last.missed = {quizID}
    /\ "s1" \in DOMAIN data_sources
    /\ UserId \in dict_keys(data_sources["s1"].columns_to_entities)
    /\ DOMAIN data_sources["s1"].df = {UserId, quizID}
    /\ ~data_sources["s1"].is_pseudonomised

\* C2: pseudonomise on a data source that is already pseudonomised fails
\* with the already-pseudonomised error and leaves the dataframe, the store
\* and the flag as they were.
C2_SecondCallRejected ==
    [][\A n \in DOMAIN data_sources :
         (/\ last'.op = "pseudonomise"
          /\ last'.arg = <<n>>
          /\ data_sources[n].is_pseudonomised) =>
            /\ last'.error = "AlreadyPseudonomised"
            /\ data_sources' = data_sources
            /\ pseudonomisation' = pseudonomisation
            /\ data_sources'[n].is_pseudonomised]_vars

\* a second call on a pseudonomised source whose column holds surrogates
C2_Witness ==
    /\ last.op = "pseudonomise"
    /\ last.error = "AlreadyPseudonomised"
    /\ \E n \in DOMAIN data_sources :
          /\ last.arg = <<n>>
          /\ data_sources[n].is_pseudonomised
          /\ data_sources[n].df[UserId] = <<IntCell(0), IntCell(1), IntCell(0), NaN>>

\* every CSV of the public folder was written from a pseudonomised source
CsvOnlyOfPseudonomised ==
    \A n \in DOMAIN csv_files : csv_files[n].pseudonomised

\* a step writes the CSV of a source only when the source is pseudonomised,
\* and an export that meets a source that is not pseudonomised fails
ExportStepGuarded ==
    /\ \A n \in SourceNames :
          (\/ (n \in DOMAIN csv_files') # (n \in DOMAIN csv_files)
           \/ n \in DOMAIN csv_files /\ csv_files'[n] # csv_files[n]) =>
             /\ n \in DOMAIN data_sources
             /\ data_sources[n].is_pseudonomised
             /\ csv_files'[n].df = data_sources[n].df
    /\ \A n \in DOMAIN data_sources :
          (/\ last'.op = "DataSource.export"
           /\ last'.arg = <<n>>
           /\ ~data_sources[n].is_pseudonomised) =>
             /\ last'.error = "NotPseudonomised"
             /\ csv_files' = csv_files
    /\ last'.op = "DataExtract.export" =>
          /\ (\E i \in DOMAIN last'.arg :
                /\ last'.arg[i] \in DOMAIN data_sources
                /\ ~data_sources[last'.arg[i]].is_pseudonomised)
             => last'.error # "none"
          /\ \A n \in DOMAIN data_sources :
                ~data_sources[n].is_pseudonomised =>
                   (n \in DOMAIN csv_files') = (n \in DOMAIN csv_files)

\* C3: DataSource.export, and DataExtract.export for each source it is asked
\* to export, fails and writes no CSV for a data source that is not
\* pseudonomised; in every reachable state each CSV was written from a
\* source that was pseudonomised when it was exported.
C3_ExportNeedsPseudonomised ==
    [](CsvOnlyOfPseudonomised) /\ [][ExportStepGuarded]_vars

\* DataExtract.export over both sources wrote the CSV of the pseudonomised
\* one and failed at the one that is not pseudonomised
C3_Witness ==
    /\ last.op = "DataExtract.export"
    /\ last.error = "NotPseudonomised"
    /\ Len(last.arg) = 2
    /\ last.arg[1] \in DOMAIN csv_files
    /\ last.arg[2] \in DOMAIN data_sources
    /\ last.arg[2] \notin DOMAIN csv_files
    /\ ~data_sources[last.arg[2]].is_pseudonomised

\* C4: generate_markdown_report and archive use the is_pseudonomised flag as
\* a guard: the report puts no rows of a registered data source whose flag
\* is false into docs/README.md of the public folder, and archive uploads
\* no archive that holds such rows.
C4_ReportAndArchiveGuarded ==
    [][/\ (last'.op = "generate_markdown_report" /\ readme' # readme) =>
            \A n \in DOMAIN data_sources :
               ~data_sources[n].is_pseudonomised => readme'.samples[n] = {}
       /\ last'.op = "archive" =>
            \A b \in blobs' \ blobs :
               \A n \in DOMAIN data_sources :
                  ~data_sources[n].is_pseudonomised =>
                     /\ n \notin DOMAIN b.data.csv_files
                     /\ b.data.readme.exists => b.data.readme.samples[n] = {}]_vars

Injective(m) == \A a, b \in DOMAIN m : m[a] = m[b] => a = b

\* C5: in every state reached from the empty store, the mapping of each
\* entity in DataExtract.pseudonomisation is injective.
C5_StoreInjective ==
    \A e \in DOMAIN pseudonomisation : Injective(pseudonomisation[e])

\* the stored mapping of an entity holds every real id, with a surrogate
\* beyond the first ones, and a further call on it has returned
C5_Witness ==
    /\ "User" \in DOMAIN pseudonomisation
    /\ DOMAIN pseudonomisation["User"] = RealIds
    /\ \E k \in RealIds : pseudonomisation["User"][k] >= MaxId
    /\ ext.pc = "returned"
    /\ ext.error = "none"
    /\ ext.existing = pseudonomisation["User"]
    /\ Len(ext.real_ids) >= 2

\* m2 maps every key of m1 as m1 does
Extends(m1, m2) ==
    \A k \in DOMAIN m1 : k \in DOMAIN m2 /\ m2[k] = m1[k]

\* C6: the store is cumulative and stable: a step removes no entity and no
\* real id from the store and changes no surrogate, and the mapping that
\* __real_id_to_pseudo_id returns maps every real id of the existing mapping
\* as before, whatever the input series holds.
C6_SurrogatesStable ==
    [][/\ \A e \in DOMAIN pseudonomisation :
             /\ e \in DOMAIN pseudonomisation'
             /\ Extends(pseudonomisation[e], pseudonomisation'[e])
       /\ (ext'.pc = "returned" /\ ext'.error = "none") =>
             Extends(ext'.existing, ext'.mapping)]_vars

\* a call whose series holds a real id that is mapped already, after a new
\* one, has returned a larger mapping
C6_Witness ==
    /\ ext.pc = "returned"
    /\ ext.error = "none"
    /\ DOMAIN ext.existing # {}
    /\ DOMAIN ext.mapping # DOMAIN ext.existing
    /\ Len(ext.real_ids) >= 2
    /\ ext.real_ids[1][1] = "int"
    /\ ext.real_ids[1][2] \notin DOMAIN ext.existing
    /\ ext.real_ids[2][1] = "int"
    /\ ext.real_ids[2][2] \in DOMAIN ext.existing

\* the non-missing cells of a series that are no key of the mapping, each
\* once, in the order of their first occurrence
NewlySeen(real_ids, existing) ==
    SelectSeq(drop_duplicates(dropna(real_ids)),
              LAMBDA c : ~(c[1] = "int" /\ c[2] \in DOMAIN existing))

StartOf(existing) ==
    IF DOMAIN existing = {} THEN 0
    ELSE SetMax({existing[k] : k \in DOMAIN existing}) + 1

\* C7: in one call the newly-seen real ids receive the surrogates start,
\* start + 1, ... in the order of their first occurrence, start being 0 for
\* an empty existing mapping and the maximum existing surrogate + 1
\* otherwise; every new surrogate is greater than every existing one.
C7_NewIdsNumberedInOrder ==
    (ext.pc = "returned" /\ ext.error = "none") =>
       LET seen == NewlySeen(ext.real_ids, ext.existing)
       IN  /\ \A i \in DOMAIN seen :
                /\ seen[i][2] \in DOMAIN ext.mapping
                /\ ext.mapping[seen[i][2]] = StartOf(ext.existing) + i - 1
           /\ \A k \in DOMAIN ext.mapping \ DOMAIN ext.existing :
                \A j \in DOMAIN ext.existing :
                   ext.mapping[k] > ext.existing[j]

\* the real ids of a series: the numbers its non-missing cells hold
RealIdsOf(real_ids) ==
    {real_ids[i] : i \in {j \in DOMAIN real_ids : real_ids[j] # NaN}}

\* C8: missing entries and repeated real ids neither receive nor consume a
\* surrogate: the call adds one entry for each distinct non-missing real id
\* that is not mapped yet, and the surrogates it hands out are the next
\* ones without a gap; [1, 1, None, 2] on the empty mapping gives {1:0, 2:1}.
C8_MissingAndRepeatsConsumeNothing ==
    (ext.pc = "returned" /\ ext.error = "none") =>
       LET added == DOMAIN ext.mapping \ DOMAIN ext.existing
           unmapped == {c \in RealIdsOf(ext.real_ids) :
                          ~(c[1] = "int" /\ c[2] \in DOMAIN ext.existing)}
           start == StartOf(ext.existing)
       IN  /\ Cardinality(added) = Cardinality(unmapped)
           /\ {ext.mapping[k] : k \in added}
                 = start .. (start + Cardinality(unmapped) - 1)
           /\ (/\ DOMAIN ext.existing = {}
               /\ ext.real_ids = <<IntCell(1), IntCell(1), NaN, IntCell(2)>>)
              => /\ DOMAIN ext.mapping = {1, 2}
                 /\ ext.mapping[1] = 0
                 /\ ext.mapping[2] = 1

\* C9: the classifier returns exactly the column names whose last two
\* characters are "i" or "I" followed by "d" or "D", for every set of
\* column names.
C9_ClassifierIsIdSuffix ==
    cls.done => cls.id_columns = {c \in cls.columns : LooksLikeId(c)}

\* the declared pairs of a source whose column is absent from the dataframe
\* or holds a string that is no integer: the pairs at which the loop raises
FailingPairs(data_source) ==
    {i \in DOMAIN data_source.columns_to_entities :
        LET col == data_source.columns_to_entities[i][1]
        IN  \/ col \notin DOMAIN data_source.df
            \/ StrCell \in Range(data_source.df[col])}

SetMin(S) == CHOOSE x \in S : \A y \in S : x <= y

\* column col of the dataframe after the step holds, row by row, the
\* surrogate that the store after the step gives to the integer the row held
\* before the step, and missing for a row that held no integer
Replaced(df, df2, store2, col, ent) ==
    /\ ent \in DOMAIN store2
    /\ Len(df2[col]) = Len(df[col])
    /\ \A r \in DOMAIN df[col] :
          IF df[col][r][1] = "int"
          THEN /\ df[col][r][2] \in DOMAIN store2[ent]
               /\ df2[col][r] = IntCell(store2[ent][df[col][r][2]])
          ELSE df2[col][r] = NaN

\* C10: pseudonomise sets the flag only when every declared pair was
\* processed; when the loop raises at a pair the flag stays false, the
\* columns of the pairs before it stay replaced and their entities stay in
\* the store, and the columns from that pair on are as they were.
C10_FlagOnlyAfterAllColumns ==
    [][\A n \in DOMAIN data_sources :
         (/\ last'.op = "pseudonomise"
          /\ last'.arg = <<n>>
          /\ last'.error \notin {"AlreadyPseudonomised", "UnhandledIdColumns"}) =>
            LET ds == data_sources[n]
                ds2 == data_sources'[n]
                pairs == ds.columns_to_entities
                failing == FailingPairs(ds)
                stop == IF failing = {} THEN Len(pairs) + 1 ELSE SetMin(failing)
            IN  /\ ds2.is_pseudonomised = (failing = {})
                /\ (last'.error = "none") = (failing = {})
                /\ DOMAIN ds2.df = DOMAIN ds.df
                /\ \A i \in DOMAIN pairs :
                      IF i < stop
                      THEN Replaced(ds.df, ds2.df, pseudonomisation',
                                    pairs[i][1], pairs[i][2])
                      ELSE pairs[i][1] \in DOMAIN ds.df =>
                              ds2.df[pairs[i][1]] = ds.df[pairs[i][1]]]_vars

\* the loop raised at the second pair: the flag is false, the column of the
\* first pair holds a surrogate and its entity has a mapping in the store
C10_Witness ==
    /\ last.op = "pseudonomise"
    /\ last.error \in {"ValueError", "KeyError"}
    /\ "s1" \in DOMAIN data_sources
    /\ ~data_sources["s1"].is_pseudonomised
    /\ Len(data_sources["s1"].columns_to_entities) = 2
    /\ LET first == data_sources["s1"].columns_to_entities[1]
       IN  /\ first[1] \in DOMAIN data_sources["s1"].df
           /\ data_sources["s1"].df[first[1]] = <<IntCell(0)>>
           /\ first[2] \in DOMAIN pseudonomisation
           /\ DOMAIN pseudonomisation[first[2]] # {}

\* C11: after a pseudonomise attempt on a data source has failed, at a
\* precondition or partway through the columns, a further pseudonomise call
\* on the same data source fails with the already-pseudonomised error and
\* changes neither the dataframe nor the store.
C11_FailedAttemptBlocksRerun ==
    [][\A n \in DOMAIN data_sources :
         (/\ last.op = "pseudonomise"
          /\ last.arg = <<n>>
          /\ last.error # "none"
          /\ last'.op = "pseudonomise"
          /\ last'.arg = <<n>>) =>
            /\ last'.error = "AlreadyPseudonomised"
            /\ data_sources' = data_sources
            /\ pseudonomisation' = pseudonomisation]_vars

\* C13: pseudonomise(name) with a name that is not registered fails with the
\* not-found error and changes no data source, no dataframe and no entry of
\* the store.
C13_UnknownNameRejected ==
    [][\A n \in SourceNames :
         (/\ last'.op = "pseudonomise"
          /\ last'.arg = <<n>>
          /\ n \notin DOMAIN data_sources) =>
            /\ last'.error = "NotFound"
            /\ data_sources' = data_sources
            /\ pseudonomisation' = pseudonomisation]_vars

\* the call named a source that is not registered while another source is
\* registered, not yet pseudonomised, and the store holds a mapping
C13_Witness ==
    /\ last.op = "pseudonomise"
    /\ last.error = "NotFound"
    /\ last.arg[1] \notin DOMAIN data_sources
    /\ \E n \in DOMAIN data_sources : ~data_sources[n].is_pseudonomised
    /\ DOMAIN pseudonomisation # {}

\* the store of the state after the step holds a surrogate for the value of
\* cell c of entity ent; the keys of a mapping are integers
HasSurrogate(store, ent, c) ==
    /\ ent \in DOMAIN store
    /\ c[1] = "int"
    /\ c[2] \in DOMAIN store[ent]

\* C14: after a successful pseudonomise, for every declared pair and every
\* row, the column holds the store's surrogate of the value the row held
\* before the call when that value was not missing, and missing when it was
\* missing; the rows are as many as before and in the same order, and the
\* flag is true; UserId [1, 2, 1, None] on the empty store gives
\* [0, 1, 0, missing] and the store {User: {1: 0, 2: 1}}.
C14_ColumnsHoldSurrogates ==
    [][\A n \in DOMAIN data_sources :
         (/\ last'.op = "pseudonomise"
          /\ last'.arg = <<n>>
          /\ last'.error = "none") =>
            LET ds == data_sources[n]
                ds2 == data_sources'[n]
                pairs == ds.columns_to_entities
            IN  /\ ds2.is_pseudonomised
                /\ DOMAIN ds2.df = DOMAIN ds.df
                /\ \A c \in DOMAIN ds.df : Len(ds2.df[c]) = Len(ds.df[c])
                /\ \A i \in DOMAIN pairs :
                      LET col == pairs[i][1]
                          ent == pairs[i][2]
                      IN  \A r \in DOMAIN ds.df[col] :
                             LET c == ds.df[col][r]
                             IN  IF c = NaN
                                 THEN ds2.df[col][r] = NaN
                                 ELSE /\ HasSurrogate(pseudonomisation', ent, c)
                                      /\ ds2.df[col][r]
                                           = IntCell(pseudonomisation'[ent][c[2]])
                /\ (/\ ds.df = Col1(UserId, <<IntCell(1), IntCell(2),
                                             IntCell(1), NaN>>)
                    /\ pairs = UserIsUser
                    /\ pseudonomisation = EmptyDict)
                   => /\ ds2.df[UserId]
                           = <<IntCell(0), IntCell(1), IntCell(0), NaN>>
                      /\ pseudonomisation'
                           = [e \in {"User"} |-> [k \in {1, 2} |-> k - 1]]]_vars

\* a cell that holds a value which is no integer
NotAnInteger(c) == c # NaN /\ c[1] # "int"

\* C16: __real_id_to_pseudo_id fails with the type-conversion error whenever
\* a non-missing real id of the series cannot be represented as an integer
\* (a fractional value such as 1.5); such a value is never given a surrogate
\* and never changed to another integer: every key the call adds is the
\* value of an integral cell of the series.
C16_NonIntegerIdFails ==
    ext.pc = "returned" =>
       /\ (\E i \in DOMAIN ext.real_ids : NotAnInteger(ext.real_ids[i]))
             => ext.error = "ValueError"
       /\ ext.error = "none" =>
             \A k \in DOMAIN ext.mapping \ DOMAIN ext.existing :
                IntCell(k) \in Range(ext.real_ids)

\* C17: in the column replacement of pseudonomise a value that is no key of
\* the entity's mapping becomes a missing value in the output column, and
\* the call does not raise because of it; the original value does not
\* remain in the column.
C17_UnmappedValueBecomesMissing ==
    [][\A n \in DOMAIN data_sources :
         (/\ last'.op = "pseudonomise"
          /\ last'.arg = <<n>>
          /\ last'.error \notin {"AlreadyPseudonomised", "UnhandledIdColumns"}) =>
            LET ds == data_sources[n]
                ds2 == data_sources'[n]
                pairs == ds.columns_to_entities
                failing == FailingPairs(ds)
                stop == IF failing = {} THEN Len(pairs) + 1 ELSE SetMin(failing)
            IN  /\ \A i \in DOMAIN pairs :
                      i < stop =>
                         \A r \in DOMAIN ds.df[pairs[i][1]] :
                            ~HasSurrogate(pseudonomisation', pairs[i][2],
                                          ds.df[pairs[i][1]][r])
                               => ds2.df[pairs[i][1]][r] = NaN
                /\ failing = {} => last'.error = "none"]_vars

\* a successful call on a source whose only declared column held the
\* fractional 1.5: the store maps the key 1 and the column holds missing
C17_Witness ==
    /\ last.op = "pseudonomise"
    /\ last.error = "none"
    /\ "s1" \in DOMAIN data_sources
    /\ data_sources["s1"].is_pseudonomised
    /\ Len(data_sources["s1"].columns_to_entities) = 1
    /\ LET col == data_sources["s1"].columns_to_entities[1][1]
           ent == data_sources["s1"].columns_to_entities[1][2]
       IN  /\ col \in DOMAIN data_sources["s1"].df
           /\ data_sources["s1"].df[col] = <<NaN>>
           /\ ent \in DOMAIN pseudonomisation
           /\ DOMAIN pseudonomisation[ent] = {1}

\* C18: from the empty store the surrogates of each entity are contiguous:
\* in every reachable state the surrogates of an entity with n mapped real
\* ids are exactly 0 .. n - 1.
C18_SurrogatesContiguous ==
    \A e \in DOMAIN pseudonomisation :
       dict_values(pseudonomisation[e])
          = 0 .. (Cardinality(DOMAIN pseudonomisation[e]) - 1)

\* C19: the injectivity check of __real_id_to_pseudo_id never fails when
\* the existing mapping is injective: from the empty store no call reaches
\* the mapping-collision error.
C19_CollisionUnreachable ==
    /\ (ext.pc = "returned" /\ Injective(ext.existing))
          => ext.error # "Collision"
    /\ last.error # "Collision"

\* a call on a mapping that is not empty has added a real id, from a series
\* in which an integer and a fractional value truncate to the same key
C19_Witness ==
    /\ ext.pc = "returned"
    /\ ext.error = "none"
    /\ DOMAIN ext.existing # {}
    /\ DOMAIN ext.mapping # DOMAIN ext.existing
    /\ IntCell(1) \in Range(ext.real_ids)
    /\ FloatCell(1) \in Range(ext.real_ids)

\* C15: the store is shared by the data sources of one extract: a
\* successful pseudonomise writes, for each row of a declared column that
\* held an integer, the surrogate the store gives to that integer; a real id
\* the store mapped already keeps the surrogate it had, whichever source and
\* column it was first seen in, and a real id first seen now is numbered
\* after every surrogate of its entity; no surrogate written for an earlier
\* source changes. After UserId [1, 2, 1, None], a second source with
\* UserId [2, 3] maps 2 to 1 and 3 to 2.
C15_StoreSharedAcrossSources ==
    [][\A n \in DOMAIN data_sources :
         (/\ last'.op = "pseudonomise"
          /\ last'.arg = <<n>>
          /\ last'.error = "none") =>
            LET ds == data_sources[n]
                ds2 == data_sources'[n]
                pairs == ds.columns_to_entities
            IN  /\ \A i \in DOMAIN pairs :
                      LET col == pairs[i][1]
                          ent == pairs[i][2]
                      IN  \A r \in DOMAIN ds.df[col] :
                             LET c == ds.df[col][r]
                             IN  c[1] = "int" =>
                                   /\ HasSurrogate(pseudonomisation', ent, c)
                                   /\ ds2.df[col][r]
                                        = IntCell(pseudonomisation'[ent][c[2]])
                                   /\ HasSurrogate(pseudonomisation, ent, c) =>
                                        pseudonomisation'[ent][c[2]]
                                           = pseudonomisation[ent][c[2]]
                                   /\ (/\ ent \in DOMAIN pseudonomisation
                                       /\ ~HasSurrogate(pseudonomisation, ent, c))
                                      => \A k \in DOMAIN pseudonomisation[ent] :
                                            pseudonomisation'[ent][c[2]]
                                               > pseudonomisation[ent][k]
                /\ \A e \in DOMAIN pseudonomisation :
                      /\ e \in DOMAIN pseudonomisation'
                      /\ Extends(pseudonomisation[e], pseudonomisation'[e])
                /\ (/\ ds = SrcSecond
                    /\ pseudonomisation
                         = [e \in {"User"} |-> [k \in {1, 2} |-> k - 1]])
                   => /\ ds2.df[UserId] = <<IntCell(1), IntCell(2)>>
                      /\ pseudonomisation'
                           = [e \in {"User"} |-> [k \in {1, 2, 3} |-> k - 1]]]_vars

\* the two sources of the documented scenario, pseudonomised one after the
\* other
C15_Witness ==
    /\ last.op = "pseudonomise"
    /\ last.error = "none"
    /\ \E a, b \in DOMAIN data_sources :
          /\ a # b
          /\ last.arg = <<b>>
          /\ data_sources[a].is_pseudonomised
          /\ data_sources[b].is_pseudonomised
          /\ data_sources[a].df = Col1(UserId, <<IntCell(0), IntCell(1),
                                                 IntCell(0), NaN>>)
          /\ data_sources[b].df = Col1(UserId, <<IntCell(1), IntCell(2)>>)
    /\ pseudonomisation = [e \in {"User"} |-> [k \in {1, 2, 3} |-> k - 1]]

\* C12: a data source is RAW when it is constructed and PSEUDONOMISED is
\* terminal: a source enters the registry with the flag false, and no
\* operation changes the flag of a registered source from true to false;
\* after add_data_source(n) the registry holds, under n, the source that
\* was handed over, another instance than the one it held before.
C12_FlagNeverReset ==
    [][/\ \A n \in DOMAIN data_sources :
             data_sources[n].is_pseudonomised =>
                \/ /\ n \in DOMAIN data_sources'
                   /\ data_sources'[n].is_pseudonomised
                \/ /\ last'.op = "add_data_source"
                   /\ last'.arg = <<n>>
       /\ \A n \in DOMAIN data_sources' :
             (\/ n \notin DOMAIN data_sources
              \/ last'.op = "add_data_source" /\ last'.arg = <<n>>)
                => ~data_sources'[n].is_pseudonomised]_vars

\* a pseudonomised source has been exported, reported and saved, and its
\* glossary updated, and the flag is still true
C12_Witness ==
    /\ last.op = "update_glossary"
    /\ "s1" \in DOMAIN data_sources
    /\ data_sources["s1"].is_pseudonomised
    /\ DOMAIN data_sources["s1"].glossary # {}
    /\ "s1" \in DOMAIN csv_files
    /\ readme.exists
    /\ private_file.exists
    /\ "s1" \in DOMAIN private_file.data_sources
    /\ private_file.data_sources["s1"].is_pseudonomised

\* C20: Blobs.upload(filepath, overwrite, container_path) raises
\* FileNotFoundError, and creates or overwrites no blob, for every filepath
\* that does not exist locally, whatever container_path is; when the file
\* exists and the upload succeeds, the blob written is the one named by the
\* path of the file relative to container_path, and it holds the file.
C20_UploadOfMissingFileFails ==
    [][last'.op = "upload" =>
         LET filepath == last'.arg[1]
             container_path == last'.arg[3]
             base == IF container_path # <<>> THEN container_path[1] ELSE Cwd
         IN  /\ ~path_exists(local_files, filepath) =>
                   /\ last'.error = "FileNotFoundError"
                   /\ blobs' = blobs
             /\ (is_file(local_files, filepath) /\ last'.error = "none") =>
                   /\ \E b \in blobs' :
                         /\ b.name = relative_to(filepath, base)
                         /\ b.data = local_files[resolve(filepath)]
                   /\ \A b \in blobs' \ blobs :
                         b.name = relative_to(filepath, base)]_vars

\* C21: archive(container_name) zips the public folder into the public
\* archive file and then uploads that file to the named container: when
\* archive returns, it has not raised, the archive file holds the public
\* folder, and the container holds a blob whose data is the archive file.
C21_ArchiveUploaded ==
    [][\A c \in ContainerNames :
         (last'.op = "archive" /\ last'.arg = <<c>>) =>
            /\ last'.error = "none"
            /\ archive_zip' = [exists |-> TRUE, csv_files |-> csv_files,
                               readme |-> readme]
            /\ \E b \in blobs' :
                  /\ b.container = c
                  /\ b.data = archive_zip']_vars

\* C29: add_table_of_contents, and with it generate_markdown_report,
\* succeeds whenever the headings of the call are pairwise distinct,
\* whatever table of contents was generated earlier in the process, and the
\* anchors it returns are exactly the headings of that call. The headings
\* of the report, "Introduction", "Data Sources" and the names of the
\* sources, are pairwise distinct.
C29_TableOfContentsIndependent ==
    [][last'.op = "generate_markdown_report" =>
         /\ last'.error # "HeadingExists"
         /\ toc_anchors' = Range(report_headings)]_vars

\* C30: add_markdown_report completes for a dataframe of any number of
\* rows: the report of the sources does not raise in the sampling; a source
\* without rows gets no sample, and a source with rows gets a sample of at
\* least one and at most three of its rows.
C30_SampleFitsDataframe ==
    [][(last'.op = "generate_markdown_report"
           /\ last'.error # "HeadingExists") =>
         /\ last'.error = "none"
         /\ readme'.exists
         /\ \A n \in DOMAIN data_sources :
               LET rows == nrows(data_sources[n].df)
                   sample == readme'.samples[n]
               IN  /\ rows = 0 => sample = {}
                   /\ rows > 0 =>
                         /\ sample # {}
                         /\ Cardinality(sample) <= SampleSize
                         /\ sample \subseteq
                               {row(data_sources[n].df, i) : i \in 1..rows}]_vars

\* C27: adding a column name to the whitelist, or a pair to
\* columns_to_entities, of one registered Data Source leaves the whitelist
\* and the columns_to_entities that pseudonomise reads for every other
\* registered Data Source as they were, sources constructed without those
\* arguments included
C27_DeclarationsIndependent ==
    [][\A a \in DOMAIN data_sources :
         (/\ last'.op \in {"whitelist.add", "columns_to_entities.set"}
          /\ last'.arg[1] = a) =>
            \A b \in DOMAIN data_sources \ {a} :
               /\ b \in DOMAIN data_sources'
               /\ whitelist_of(data_sources'[b], default_args')
                    = whitelist_of(data_sources[b], default_args)
               /\ columns_to_entities_of(data_sources'[b], default_args')
                    = columns_to_entities_of(data_sources[b], default_args)]_vars

\* C26: a successful pseudonomise(name) changes, in the dataframe of that
\* source, only the columns that are keys of its columns_to_entities, and in
\* the store only the entries of the entities those columns map to; every
\* other column, every other entity's mapping and every other registered
\* Data Source is as it was, and no source is added or removed
C26_PseudonomiseFrame ==
    [][\A n \in DOMAIN data_sources :
         (/\ last'.op = "pseudonomise"
          /\ last'.arg = <<n>>
          /\ last'.error = "none") =>
            LET ds == data_sources[n]
                pairs == columns_to_entities_of(ds, default_args)
                ents == {pairs[i][2] : i \in DOMAIN pairs}
            IN  /\ DOMAIN data_sources' = DOMAIN data_sources
                /\ DOMAIN data_sources'[n].df = DOMAIN ds.df
                /\ \A c \in DOMAIN ds.df \ dict_keys(pairs) :
                      data_sources'[n].df[c] = ds.df[c]
                /\ \A m \in DOMAIN data_sources \ {n} :
                      data_sources'[m] = data_sources[m]
                /\ DOMAIN pseudonomisation \subseteq DOMAIN pseudonomisation'
                /\ DOMAIN pseudonomisation' \subseteq DOMAIN pseudonomisation \cup ents
                /\ \A e \in DOMAIN pseudonomisation \ ents :
                      pseudonomisation'[e] = pseudonomisation[e]]_vars

\* the caller's source with a whitelisted quizID column has been
\* pseudonomised while a second source was registered and the store held
\* the mapping of the Quiz entity: UserId holds surrogates and quizID the
\* values it was registered with
C26_Witness ==
    /\ last.op = "pseudonomise" /\ last.error = "none"
    /\ \E n \in DOMAIN data_sources :
          /\ last.arg = <<n>>
          /\ data_sources[n].is_pseudonomised
          /\ data_sources[n].whitelist = {quizID}
          /\ data_sources[n].df[quizID] = SrcWhitelisted.df[quizID]
          /\ data_sources[n].df[UserId] # SrcWhitelisted.df[UserId]
          /\ \E m \in DOMAIN data_sources \ {n} :
                data_sources[m].is_pseudonomised
    /\ "Quiz" \in DOMAIN pseudonomisation
    /\ "User" \in DOMAIN pseudonomisation

\* the identifiers that a sequence of INSERT statements carries, in
\* statement order
RECURSIVE inserted_values(_)
inserted_values(inserts) ==
    IF inserts = <<>> THEN <<>>
    ELSE [i \in DOMAIN Head(inserts).values |-> Head(inserts).values[i][2]]
            \o inserted_values(Tail(inserts))

\* C24: over n identifiers and batch size b, create_join_identifiers_table
\* emits ceil(n/b) INSERT statements into the temp table, each with between
\* 1 and b values, whose values in statement order are the identifiers in
\* iteration order; for n = 0 it emits none; and it fails, emitting
\* nothing, when temp_table_name does not start with '#'
C24_InsertsBatched ==
    sql.pc = "done" =>
       LET n == Len(sql.id_set)
           b == sql.batch_size
       IN  IF sql.temp_table_name = <<>> \/ Head(sql.temp_table_name) # "#"
           THEN sql.error # "none" /\ sql.inserts = <<>>
           ELSE /\ sql.error = "none"
                /\ Len(sql.inserts) = (n + b - 1) \div b
                /\ n = 0 => sql.inserts = <<>>
                /\ \A k \in DOMAIN sql.inserts :
                      /\ sql.inserts[k].table = sql.temp_table_name
                      /\ Len(sql.inserts[k].values) \in 1..b
                /\ inserted_values(sql.inserts) = sql.id_set

\* four identifiers with a repeated one went out in batches of three: a
\* full statement and a statement with the one identifier left over
C24_Witness ==
    /\ sql.pc = "done" /\ sql.error = "none"
    /\ Len(sql.id_set) = 4 /\ sql.batch_size = 3
    /\ sql.id_set[1] = sql.id_set[4]
    /\ Len(sql.inserts) = 2
    /\ Len(sql.inserts[2].values) = 1

\* the sync information of a batch call, computed on the state the call
\* started from
fsi_of(call, files, store) ==
    get_file_sync_info(files, store, CHOOSE c \in ContainerNames : TRUE,
                       container_path_of(call.container_path),
                       call.extensions_to_include)

\* C22: batch_download downloads only blobs of the set (in_both if
\* is_update_existing) union (local_missing if is_add_missing), each at
\* most once; with is_confirm true a blob of the set is downloaded exactly
\* when the user answered yes or y for it, in any case of the letters, and
\* with is_confirm false every blob of the set is downloaded; a downloaded
\* blob is written under container_path with the data of the blob, and no
\* other local file changes. With both flags false nothing is downloaded.
C22_BatchDownloadSelects ==
    [][(transfer.pc = "call" /\ transfer'.pc = "done"
          /\ transfer.method = "batch_download") =>
         LET fsi == fsi_of(transfer, local_files, blobs)
             todo == (IF transfer.is_update_existing THEN fsi.in_both ELSE {})
                       \cup (IF transfer.is_add_missing
                             THEN fsi.local_missing ELSE {})
             done == transfer'.done
             root == resolve(container_path_of(transfer.container_path))
         IN  /\ transfer'.error = "none"
             /\ Range(done) \subseteq todo
             /\ \A i, j \in DOMAIN done : done[i] = done[j] => i = j
             /\ \A b \in todo :
                   b \in Range(done) <=>
                      (transfer.is_confirm =>
                          transfer.answers[b] \in {"yes", "y", "Y", "YES"})
             /\ (~transfer.is_update_existing /\ ~transfer.is_add_missing)
                   => /\ done = <<>>
                      /\ local_files' = local_files
             /\ \A b \in Range(done) :
                   /\ root \o b \in DOMAIN local_files'
                   /\ \E x \in blobs : /\ x.name = b
                                       /\ local_files'[root \o b] = x.data
             /\ \A f \in DOMAIN local_files' :
                   f \notin {root \o b : b \in Range(done)} =>
                      /\ f \in DOMAIN local_files
                      /\ local_files'[f] = local_files[f]
             /\ DOMAIN local_files \subseteq DOMAIN local_files'
             /\ blobs' = blobs]_vars

\* a confirmed download of two blobs, one in both stores and one missing
\* locally: the user accepted one with "Y" and declined the other
C22_Witness ==
    /\ transfer.pc = "done" /\ transfer.method = "batch_download"
    /\ transfer.is_confirm /\ transfer.is_update_existing
    /\ transfer.is_add_missing
    /\ DOMAIN transfer.answers = {<<NameCsv>>, <<Folder, NameCsv>>}
    /\ transfer.answers[<<NameCsv>>] = "Y"
    /\ transfer.answers[<<Folder, NameCsv>>] = "no"
    /\ transfer.done = << <<NameCsv>> >>
    /\ Cwd.parts \o <<NameCsv>> \in DOMAIN local_files
    /\ local_files[Cwd.parts \o <<NameCsv>>] = remote_data(<<NameCsv>>)
    /\ Cwd.parts \o <<Folder, NameCsv>> \notin DOMAIN local_files

\* C23: the sets that _get_file_sync_info returns for the local files
\* under container_path and the blobs of the container: local_missing is
\* blob_files minus local_files, blob_missing is local_files minus
\* blob_files and in_both is their intersection, so the three are pairwise
\* disjoint and their union is local_files union blob_files; every name in
\* them is a local file or a blob, and ends with an included extension
C23_SyncInfoPartitions ==
    [][(transfer.pc = "call" /\ transfer'.pc = "done") =>
         LET fsi == transfer'.fsi
             root == resolve(container_path_of(transfer.container_path))
             all == fsi.local_missing \cup fsi.blob_missing \cup fsi.in_both
         IN  /\ fsi.local_missing = fsi.blob_files \ fsi.local_files
             /\ fsi.blob_missing = fsi.local_files \ fsi.blob_files
             /\ fsi.in_both = fsi.local_files \cap fsi.blob_files
             /\ fsi.local_missing \cap fsi.blob_missing = {}
             /\ fsi.local_missing \cap fsi.in_both = {}
             /\ fsi.blob_missing \cap fsi.in_both = {}
             /\ all = fsi.local_files \cup fsi.blob_files
             /\ \A n \in fsi.local_files : root \o n \in DOMAIN local_files
             /\ \A n \in fsi.blob_files : \E b \in blobs : b.name = n
             /\ \A n \in all :
                   \E e \in transfer.extensions_to_include :
                      /\ Len(e) <= Len(str_of(n))
                      /\ \A i \in 1..Len(e) :
                            str_of(n)[Len(str_of(n)) - Len(e) + i] = e[i]]_vars

\* a call that found a file in both stores, a local file missing from the
\* container, and a blob missing locally whose name has a leading
\* underscore
C23_Witness ==
    /\ transfer.pc = "done"
    /\ transfer.container_path = <<>>
    /\ transfer.extensions_to_include = {<<".", "c">>}
    /\ transfer.fsi.in_both = {<<NameCsv>>}
    /\ transfer.fsi.blob_missing = {<<Folder, NameCsv>>}
    /\ transfer.fsi.local_missing = {<<NameUnderscore>>}

\* C28: batch_upload with is_confirm=False ends as batch_upload with
\* is_confirm=True and the answer yes to every prompt ends, going through
\* the files in the same order: the same error, the same files uploaded
\* and the same blobs in the container afterwards
C28_UnconfirmedUploadSame ==
    [][(transfer.pc = "call" /\ transfer'.pc = "done"
          /\ transfer.method = "batch_upload" /\ ~transfer.is_confirm) =>
         LET order == transfer'.order
             r == batch_upload_loop(
                     local_files, blobs, CHOOSE c \in ContainerNames : TRUE,
                     order, 1, container_path_of(transfer.container_path),
                     TRUE, [f \in Range(order) |-> "yes"],
                     transfer.overwrite, <<>>)
         IN  /\ transfer'.error = r.error
             /\ transfer'.done = r.done
             /\ blobs' = r.blobs]_vars

\* C25: eedata Blobs.sync with an invalid direction, which or choose
\* keyword transfers nothing; with which = 'all' and choose = False it
\* ends without an exception having transferred, in the direction asked
\* for only, every file that is both in the folder localpath and in the
\* container and then every file missing on the destination side, each
\* exactly once
C25_SyncAllTransfersOnce ==
    [][(transfer.pc = "call" /\ transfer'.pc = "done"
          /\ transfer.method = "sync") =>
         LET done == transfer'.done
             visible == listdir_visible(local_files, transfer.localpath)
             blob_files == {b.name[1] : b \in blobs}
             existing == visible \cap blob_files
             missing == IF transfer.direction = "upload"
                        THEN visible \ blob_files
                        ELSE blob_files \ visible
             k == Cardinality(existing)
         IN  /\ (\/ transfer.direction \notin {"upload", "download"}
                 \/ transfer.which \notin {"missing", "existing", "all"}
                 \/ transfer.choose \notin {"True", "False"})
                  => /\ done = <<>>
                     /\ local_files' = local_files
                     /\ blobs' = blobs
             /\ (/\ transfer.direction \in {"upload", "download"}
                 /\ transfer.which = "all"
                 /\ transfer.choose = "False")
                  => /\ transfer'.error = "none"
                     /\ \A i \in DOMAIN done : done[i].op = transfer.direction
                     /\ Len(done) = k + Cardinality(missing)
                     /\ {done[i].name : i \in 1..k} = existing
                     /\ {done[i].name : i \in (k + 1)..Len(done)} = missing]_vars

====
